---- MODULE Spec2Model ----
(***************************************************************************)
(* FocusFlow: the break-time platformer (PlatformerGame.tsx), the page     *)
(* that hosts it (Index) and the countdown hook it talks to (useTimer).    *)
(*                                                                         *)
(* React is modelled by what it guarantees: a state update made outside a  *)
(* discrete DOM event (an animation-frame callback, an interval, a         *)
(* timeout, a media event) is rendered later (Render) and the passive      *)
(* effects of that commit run later still (FlushEffects); the updates of a *)
(* click handler are rendered and their effects flushed before any other   *)
(* task runs (sync).  A closure reads the values of the render that        *)
(* created it: view / viewTimer are the values of the last commit.         *)
(***************************************************************************)
EXTENDS Integers, Sequences, FiniteSets, TLC

VARIABLES
    timerState,     \* useTimer: the timer state, every queued update applied
    viewTimer,      \* Index: timerState as of the last committed render
    intervalRef,    \* useTimer: intervalRef.current (0 = null)
    intervals,      \* window: ids of the countdown intervals that are active
    timeouts,       \* window: pending auto-start timeouts, each with the
                    \*   timerState its startTimer closure captured (snap)
                    \*   and whether an interval fired since (late)
    stored,         \* storage: the value saved under TIMER_STATE_KEY
    sinceUpdate,    \* storage: the seconds from the time saved under
                    \*   TIMER_LAST_UPDATE_KEY to now
    lifecycle,      \* PlatformerGame: "unmounted" | "mounted" | "removed"
    mountTimer,     \* PlatformerGame: the timerState prop of its first render
    gameStarted,    \* useGameEngine: gameStarted state
    gameState,      \* useGameEngine: gameState (gameOver, score)
    character,      \* useGameEngine: characterRef.current
    coins,          \* useGameEngine: coinsRef.current (collected flags)
    view,           \* PlatformerGame: the state values of its last render
    pendingFx,      \* React: passive effects of the last commit not yet run
    loopCleanup,    \* React: the loop effect's last run returned a cleanup
    gameLoopRef,    \* PlatformerGame: gameLoopRef.current (0 = null)
    rafQueue,       \* window: scheduled animation-frame callbacks
    ctxAvailable,   \* canvas.getContext('2d') returns a context
    audioRef,       \* PlatformerGame: audioRef.current is an Audio element
    audioPlaying,   \* PlatformerGame: audioPlaying state, which is set when
                    \*   the element starts playing and when it is paused
    sync,           \* React: inside the synchronous flush of a click
    returned,       \* number of onReturn calls made by the mounted game
    calls,          \* the calls made by the most recent step, in order
    run,            \* elapsed of the runGameLoop invocation, when the most
                    \*   recent step was one (NoRun otherwise)
    tabs,           \* chromeUtils, per tab: where its playSingleAudio call
                    \*   is, and its audioPlayTimes entry for the sound
    audioFlag,      \* chrome.storage.local: the value under audioFlagKey
    openaiApiKey,   \* server: process.env.OPENAI_API_KEY as read at startup
    loading,        \* useTimer: the loadStoredTimerState call in flight, with
                    \*   the values it has read
    settings,       \* Index: settings state
    settingsRef,    \* useTimer: settingsRef.current
    storedSettings, \* storage: the value saved under SETTINGS_KEY
    storageQueue,   \* chromeUtils: the operations chained on storageQueue, in
                    \*   the order of the calls, each with its promises
    chromeStorage,  \* chrome.storage: the values of the sync and local areas
    debounceTimeout,\* chromeUtils: the pending timeout of debouncedBroadcast,
                    \*   with the arguments of the call that set it
    broadcast,      \* chrome.runtime: per key, the value of the last
                    \*   stateChange message this tab sent
    activeListeners,\* chromeUtils: the callbacks in activeListeners
    onMessage,      \* chrome.runtime.onMessage of the tab: the registered
                    \*   wrappedCallbacks, each with the callback it wraps
    unsubscribes,   \* the functions listenForStateChanges has returned,
                    \*   each with its wrappedCallback and whether it was called
    messageCache,   \* background: the ids in messageCache, each with the
                    \*   seconds since it was set
    relayedAgo,     \* the messages the background relayed in the last
                    \*   CACHE_EXPIRY_MS, each with the seconds since
    audioCalls,     \* chromeUtils, one tab: where each of its
                    \*   playSingleAudio calls for one audioId is
    audioPlayTimes, \* chromeUtils, that tab: audioPlayTimes.get(audioId) || 0
    keyCache,       \* openaiUtils: cachedApiKey and lastFetchTime
    localKey,       \* localStorage.getItem("openai_api_key")
    ai              \* openaiUtils: the fetchApiKeyFromFirestore or
                    \*   getAIResponse call being made, and what it has done

timerVars == <<timerState, intervalRef, intervals, timeouts, stored,
               sinceUpdate>>
engineVars == <<gameStarted, gameState, character, coins>>
audioVars == <<audioRef, audioPlaying>>
tabVars == <<tabs, audioFlag>>
\* what is not part of the page
settingsVars == <<settings, settingsRef, storedSettings>>
queueVars == <<storageQueue, chromeStorage, debounceTimeout, broadcast>>
listenVars == <<activeListeners, onMessage, unsubscribes>>
\* the state of the extension's messaging and of the chat's requests
relayVars == <<messageCache, relayedAgo>>
callVars == <<audioCalls, audioPlayTimes>>
keyVars == <<keyCache, localKey, ai>>
farVars == <<listenVars, relayVars, callVars, keyVars>>
offPage == <<tabVars, openaiApiKey, loading, settingsVars, queueVars, farVars>>
loopVars == <<gameLoopRef, rafQueue>>
vars == <<timerState, viewTimer, intervalRef, intervals, timeouts, stored,
          sinceUpdate,
          lifecycle, mountTimer, gameStarted, gameState, character, coins,
          view, pendingFx, loopCleanup, gameLoopRef, rafQueue,
          ctxAvailable, audioRef, audioPlaying, sync, returned, calls, run,
          tabs, audioFlag, openaiApiKey, loading,
          settings, settingsRef, storedSettings, storageQueue, chromeStorage,
          debounceTimeout, broadcast,
          activeListeners, onMessage, unsubscribes, messageCache, relayedAgo,
          audioCalls, audioPlayTimes, keyCache, localKey, ai>>

(***************************************************************************)
(* Bounds of the model.                                                    *)
(***************************************************************************)
\* settings.focusDuration and settings.breakDuration, as seconds of countdown
FocusSeconds == 2
BreakSeconds == 1
\* the character is followed while it is at most this far right of where
\* it starts
MaxRight == 6

(***************************************************************************)
(* Time.  One unit is 1/120 s, so that the frame interval 1000 / 60 ms is  *)
(* the integer 2.  runGameLoop reads differences of timestamps only (and   *)
(* whether lastTimestamp is still 0), so the clock's origin is moved at    *)
(* every refresh to keep the latest refresh at the time epoch; a kept      *)
(* lastTimestamp is then at least epoch - frameInterval, which is 1.       *)
(***************************************************************************)
targetFPS == 60
frameInterval == 120 \div targetFPS
epoch == frameInterval + 1
\* the time from one display refresh to the next: a 120 Hz display, a 60 Hz
\* display, and a frame that comes half an interval late
RefreshDeltas == {1, 2, 3}

Count(s, c) == Cardinality({i \in DOMAIN s : s[i] = c})
\* a handle no live object holds: handles are only compared for equality
FreshId(used) == CHOOSE n \in 1..(Cardinality(used) + 1) : n \notin used

(***************************************************************************)
(* useTimer                                                                *)
(***************************************************************************)
Duration(mode) == IF mode = "focus" THEN FocusSeconds ELSE BreakSeconds

InitialTimerState ==
    [mode |-> "focus", timeRemaining |-> Duration("focus"), isRunning |-> FALSE,
     breakActivity |-> "null", completed |-> FALSE]

NothingStored ==
    [mode |-> "none", timeRemaining |-> 0, isRunning |-> FALSE,
     breakActivity |-> "null", completed |-> FALSE]

\* The hook's mutable state as one value, so that a handler which calls
\* several of the hook's functions is the composition of their effects.
Timer == [ts |-> timerState, iref |-> intervalRef, ivs |-> intervals,
          tmo |-> timeouts, sto |-> stored, upd |-> sinceUpdate]

\* a startTimerInterval that does not clear the interval it replaces
startsWithoutClearing(T) ==
    LET id == FreshId(T.ivs \cup {T.iref})
    IN  [T EXCEPT !.ivs = T.ivs \cup {id}, !.iref = id]

startTimerInterval(T) ==
    LET cleared == IF T.iref # 0 THEN T.ivs \ {T.iref} ELSE T.ivs
        \* setInterval returns a handle it has not returned before
        id == FreshId(T.ivs \cup {T.iref})
    IN  [T EXCEPT !.ivs = cleared \cup {id}, !.iref = id]

handleTimerCompletion(T, currentMode) ==
    LET nextMode == IF currentMode = "focus" THEN "break" ELSE "focus"
        newState == [mode |-> nextMode, timeRemaining |-> Duration(nextMode),
                     isRunning |-> FALSE, breakActivity |-> "null",
                     completed |-> TRUE]
    IN  [T EXCEPT !.ivs = IF T.iref # 0 THEN T.ivs \ {T.iref} ELSE T.ivs,
                  !.iref = 0, !.ts = newState, !.sto = newState, !.upd = 0]

resetTimer(T, mode) ==
    [T EXCEPT !.ivs = IF T.iref # 0 THEN T.ivs \ {T.iref} ELSE T.ivs,
              !.iref = 0,
              !.ts = [mode |-> mode, timeRemaining |-> Duration(mode),
                      isRunning |-> FALSE, breakActivity |-> "null",
                      completed |-> FALSE]]

\* startTimer as created by the render whose timerState was snap
startTimer(T, snap) ==
    IF snap.isRunning THEN T
    ELSE IF snap.timeRemaining <= 0 THEN resetTimer(T, snap.mode)
    ELSE LET newState == [snap EXCEPT !.isRunning = TRUE, !.completed = FALSE]
         IN  startTimerInterval([T EXCEPT !.ts = newState, !.sto = newState,
                                          !.upd = 0])

\* pauseTimer as created by the render whose timerState was snap
pauseTimer(T, snap) ==
    IF ~snap.isRunning THEN T
    ELSE [T EXCEPT !.ivs = IF T.iref # 0 THEN T.ivs \ {T.iref} ELSE T.ivs,
                   !.iref = 0,
                   !.ts = [T.ts EXCEPT !.isRunning = FALSE]]

\* selectBreakActivity as created by the render whose timerState was snap
selectBreakActivity(T, activity, snap) ==
    [T EXCEPT !.ts = [T.ts EXCEPT !.breakActivity = activity],
              !.tmo = IF activity # "null" /\ ~snap.isRunning
                      THEN T.tmo \cup {[snap |-> snap, late |-> FALSE]}
                      ELSE T.tmo]

\* an interval callback whose completion leaves its interval active
tickLeavesInterval(T) ==
    IF T.ts.timeRemaining <= 1
    THEN [handleTimerCompletion(T, T.ts.mode) EXCEPT !.ivs = T.ivs]
    ELSE LET newState == [T.ts EXCEPT !.timeRemaining = @ - 1,
                                      !.completed = FALSE]
         IN  [T EXCEPT !.ts = newState, !.sto = newState, !.upd = 0]

\* the interval callback of startTimerInterval
intervalCallback(T) ==
    IF T.ts.timeRemaining <= 1 THEN handleTimerCompletion(T, T.ts.mode)
    ELSE LET newState == [T.ts EXCEPT !.timeRemaining = @ - 1,
                                      !.completed = FALSE]
         IN  [T EXCEPT !.ts = newState, !.sto = newState, !.upd = 0]

Max(a, b) == IF a >= b THEN a ELSE b

\* loadStoredTimerState from "if (storedState && lastUpdate)" on, with the
\* values its reads returned; elapsedSeconds is
\* Math.floor((Date.now() - lastUpdate) / 1000).  What handleTimerCompletion
\* returns is not passed to setTimerState.
loadStoredTimerState(T, storedState, elapsedSeconds) ==
    IF storedState = NothingStored THEN T
    ELSE IF storedState.isRunning
    THEN LET timeRemaining == Max(0, storedState.timeRemaining - elapsedSeconds)
         IN  IF timeRemaining <= 0
             THEN [handleTimerCompletion(T, storedState.mode) EXCEPT !.ts = T.ts]
             ELSE LET set == [T EXCEPT !.ts = [storedState EXCEPT
                                          !.timeRemaining = timeRemaining]]
                  IN  IF set.iref = 0 THEN startTimerInterval(set) ELSE set
    ELSE [T EXCEPT !.ts = storedState]

SetTimer(T) ==
    /\ timerState' = T.ts
    /\ intervalRef' = T.iref
    /\ intervals' = T.ivs
    /\ timeouts' = T.tmo
    /\ stored' = T.sto
    /\ sinceUpdate' = T.upd


(***************************************************************************)
(* useGameEngine and the game data.  The hook and @/data/gameData are not  *)
(* among the sources; they are taken from sections 3 and 4.1 of the        *)
(* specification, on one axis: a walking character, a coin and a hazard.   *)
(***************************************************************************)
walkSpeed == 2
coinValue == 10
initialCharacter == [x |-> 0, vx |-> 0, width |-> 2]
initialCoins == <<[x |-> 3, width |-> 1, collected |-> FALSE]>>
initialObstacles == <<[x |-> 5, width |-> 2]>>
initialGameState == [gameOver |-> FALSE, score |-> 0]
\* the intents sampled: the player walks right or lets the character coast
Intents == {"none", "right"}

Overlaps(a, b) == a.x < b.x + b.width /\ b.x < a.x + a.width

\* friction: the speed passes through an intermediate value on its way to 0
Decay(v) == IF v > 0 THEN v \div 2 ELSE -((-v) \div 2)

Engine == [ch |-> character, coins |-> coins, gs |-> gameState]

\* a tick whose coin pickup does not look at the collected flag
recountingTick(E, intent) ==
    LET vx == CASE intent = "right" -> walkSpeed
                [] intent = "left" -> -walkSpeed
                [] OTHER -> Decay(E.ch.vx)
        ch == [E.ch EXCEPT !.vx = vx, !.x = @ + vx]
        hit == \E i \in DOMAIN initialObstacles : Overlaps(ch, initialObstacles[i])
        picked == {i \in DOMAIN E.coins : Overlaps(ch, E.coins[i])}
    IN  IF hit
        THEN [E EXCEPT !.ch = ch, !.gs = [@ EXCEPT !.gameOver = TRUE]]
        ELSE [E EXCEPT !.ch = ch,
                       !.coins = [i \in DOMAIN E.coins |->
                                     IF i \in picked
                                     THEN [E.coins[i] EXCEPT !.collected = TRUE]
                                     ELSE E.coins[i]],
                       !.gs = [@ EXCEPT !.score = @ + coinValue * Cardinality(picked)]]

\* one tick of section 4.1: intent, integration, hazard check, coin pickup
updateGame(E, intent) ==
    LET vx == CASE intent = "right" -> walkSpeed
                [] intent = "left" -> -walkSpeed
                [] OTHER -> Decay(E.ch.vx)
        ch == [E.ch EXCEPT !.vx = vx, !.x = @ + vx]
        hit == \E i \in DOMAIN initialObstacles : Overlaps(ch, initialObstacles[i])
        picked == {i \in DOMAIN E.coins :
                      ~E.coins[i].collected /\ Overlaps(ch, E.coins[i])}
    IN  IF hit
        THEN [E EXCEPT !.ch = ch, !.gs = [@ EXCEPT !.gameOver = TRUE]]
        ELSE [E EXCEPT !.ch = ch,
                       !.coins = [i \in DOMAIN E.coins |->
                                     IF i \in picked
                                     THEN [E.coins[i] EXCEPT !.collected = TRUE]
                                     ELSE E.coins[i]],
                       !.gs = [@ EXCEPT !.score = @ + coinValue * Cardinality(picked)]]

\* a reset that puts back the character and the game state but not the coins
keepCoins(E) == [E EXCEPT !.ch = initialCharacter, !.gs = initialGameState]

resetGame(E) ==
    [ch |-> initialCharacter, coins |-> initialCoins, gs |-> initialGameState]

SetEngine(E) ==
    /\ character' = E.ch
    /\ coins' = E.coins
    /\ gameState' = E.gs

(***************************************************************************)
(* React: what a render of the page reads, and which effects it leaves     *)
(***************************************************************************)
InitialView ==
    [gameStarted |-> FALSE, gameOver |-> FALSE, score |-> 0,
     audioPlaying |-> FALSE]

\* the values a render of PlatformerGame reads now
CurrentView ==
    [gameStarted |-> gameStarted, gameOver |-> gameState.gameOver,
     score |-> gameState.score, audioPlaying |-> audioPlaying]

\* useGameEngine is free to return to a render the updateGame function it
\* returned to the last one, or a new one
updateGameChanged == BOOLEAN

\* Index: the game replaces the page while a game break is on
ShowsGame(ts) == ts.mode = "break" /\ ts.breakActivity = "game"

\* the dependency list of the loop effect, but for updateGame
LoopDeps(v) == <<v.gameStarted, v.gameOver>>

Dirty ==
    \/ timerState # viewTimer
    \/ lifecycle = "mounted" /\ CurrentView # view


(***************************************************************************)
(* Variants of pieces of the code.  A property that is said to rest on a   *)
(* piece fails when the piece is replaced by its variant.                  *)
(***************************************************************************)
\* runGameLoop keeping the timestamp itself, the remainder dropped
droppedRemainder(timestamp, elapsed) == timestamp
\* runGameLoop drawing a frame in an invocation under the interval as well
idleRender == <<"renderGame">>
\* runGameLoop leaving lastTimestamp where it was after a tick
staleTimestamp(timestamp, elapsed) == timestamp - elapsed
\* handleReturn leaving the scheduled callback alone
keepLoop(q, ref) == q
\* the effect cleanups leaving the scheduled callback alone
leaveLoop(q, ref) == q
\* a host whose onReturn leaves the game on the page
stayInGame(T) == T

(***************************************************************************)
(* PlatformerGame: the pieces of its handlers                              *)
(***************************************************************************)
Ids(q) == {c.id : c \in q}

\* handleReturn: cancelAnimationFrame(gameLoopRef.current), guarded by
\* if (gameLoopRef.current)
cancelLoop(q, ref) == IF ref # 0 THEN {c \in q : c.id # ref} ELSE q

\* a cleanup that leaves the requested callback scheduled
cleanupLeavesCallback(q, ref) == q

\* the same statement in the cleanup of the loop effect and in the cleanup
\* of the audio effect
cleanupLoop(q, ref) == IF ref # 0 THEN {c \in q : c.id # ref} ELSE q

\* runGameLoop: the throttle test and the timestamp it keeps
exceedsInterval(elapsed) == elapsed > frameInterval
carriedTimestamp(timestamp, elapsed) == timestamp - (elapsed % frameInterval)
\* runGameLoop: the calls of one invocation that found elapsed over the
\* interval, given the gameOver its closure reads
dueCalls(gameOver) ==
    (IF ~gameOver THEN <<"updateGame">> ELSE <<>>) \o <<"renderGame">>
\* an invocation that did not
idleCalls == <<>>

\* renderGame: the overlay is drawn from the gameState of the closure's render
overlayCalls(gameOver) == IF gameOver THEN <<"drawGameOver">> ELSE <<>>

\* Index.handleReturnFromGame
handleReturnFromGame(T) == selectBreakActivity(T, "null", viewTimer)

(***************************************************************************)
(* A display refresh: every scheduled callback runs at the same timestamp, *)
(* in the order of the requests; what they request runs at the next one.   *)
(***************************************************************************)
NoRun == -1

\* One invocation of runGameLoop, on R: the engine (E), the callbacks
\* requested for the next refresh (queue), gameLoopRef.current (ref), the
\* calls made (log) and the elapsed time of the invocation (run).
runGameLoop(R, cb, timestamp, intent) ==
    LET lastTimestamp == IF cb.last = 0 THEN timestamp ELSE cb.last
        elapsed == timestamp - lastTimestamp
        due == exceedsInterval(elapsed)
        log == IF due THEN dueCalls(cb.gameOver) \o overlayCalls(cb.gameOver)
               ELSE idleCalls
        kept == IF due THEN carriedTimestamp(timestamp, elapsed) ELSE lastTimestamp
        id == FreshId(Ids(R.queue))
    IN  [E |-> IF Count(log, "updateGame") > 0
               THEN updateGame(R.E, intent) ELSE R.E,
         queue |-> IF cb.gameStarted
                   THEN R.queue \cup {[cb EXCEPT !.id = id, !.last = kept]}
                   ELSE R.queue,
         ref |-> IF cb.gameStarted THEN id ELSE R.ref,
         log |-> R.log \o log
                 \o (IF cb.gameStarted THEN <<"requestAnimationFrame">> ELSE <<>>),
         run |-> elapsed]

RECURSIVE RunCallbacks(_, _, _, _)
RunCallbacks(R, todo, timestamp, intent) ==
    IF todo = {} THEN R
    ELSE LET cb == CHOOSE c \in todo : \A d \in todo : c.id <= d.id
         IN  RunCallbacks(runGameLoop(R, cb, timestamp, intent),
                          todo \ {cb}, timestamp, intent)

\* the callbacks kept for the next refresh, on the clock whose origin has
\* moved by delta
Rebase(q, delta) == {[c EXCEPT !.last = @ - delta] : c \in q}

Refresh(delta, intent) ==
    LET timestamp == epoch + delta
        R == RunCallbacks([E |-> Engine, queue |-> {}, ref |-> gameLoopRef,
                           log |-> <<>>, run |-> NoRun],
                          rafQueue, timestamp, intent)
    IN  /\ ~sync
        /\ rafQueue # {}
        /\ R.E.ch.x <= initialCharacter.x + MaxRight
        /\ SetEngine(R.E)
        /\ rafQueue' = Rebase(R.queue, delta)
        /\ gameLoopRef' = R.ref
        /\ calls' = R.log
        /\ run' = R.run
        /\ UNCHANGED <<timerVars, viewTimer, lifecycle, mountTimer, gameStarted,
                       view, pendingFx, loopCleanup, ctxAvailable, audioVars, offPage,
                       sync, returned>>

(***************************************************************************)
(* React renders the page: Index, and PlatformerGame while it is shown.    *)
(***************************************************************************)
RenderMount ==
    /\ lifecycle = "unmounted" /\ ShowsGame(timerState)
    /\ lifecycle' = "mounted"
    /\ mountTimer' = timerState
    /\ gameStarted' = FALSE
    /\ SetEngine(resetGame(Engine))
    /\ view' = InitialView
    /\ pendingFx' = {"mount"}
    /\ run' = NoRun
    /\ calls' = <<>>
    /\ UNCHANGED <<loopCleanup, loopVars, audioVars, offPage, returned>>

RenderUpdate ==
    /\ lifecycle = "mounted" /\ ShowsGame(timerState)
    /\ view' = CurrentView
    /\ \E changed \in updateGameChanged :
          pendingFx' = IF changed \/ LoopDeps(CurrentView) # LoopDeps(view)
                       THEN {"loop"} ELSE {}
    /\ run' = NoRun
    /\ calls' = <<>>
    /\ UNCHANGED <<lifecycle, mountTimer, engineVars, loopCleanup, loopVars,
                   audioVars, offPage, returned>>

RenderUnmount ==
    /\ lifecycle = "mounted" /\ ~ShowsGame(timerState)
    /\ lifecycle' = "removed"
    /\ pendingFx' = {"unmount"}
    /\ run' = NoRun
    /\ calls' = <<>>
    /\ UNCHANGED <<mountTimer, engineVars, view, loopCleanup, loopVars,
                   audioVars, offPage, returned>>

RenderPage ==
    /\ lifecycle = "unmounted" /\ ~ShowsGame(timerState)
    /\ run' = NoRun
    /\ calls' = <<>>
    /\ UNCHANGED <<lifecycle, mountTimer, engineVars, view, pendingFx,
                   loopCleanup, loopVars, audioVars, offPage, returned>>

Render ==
    /\ pendingFx = {} /\ Dirty
    /\ viewTimer' = timerState
    /\ (RenderMount \/ RenderUpdate \/ RenderUnmount \/ RenderPage)
    /\ UNCHANGED <<timerVars, ctxAvailable, sync>>


(***************************************************************************)
(* React runs the passive effects of the last commit.                      *)
(***************************************************************************)
\* the first commit of PlatformerGame: the bodies of its effects
\* mount effects that call onStart whatever the timer does
MountAlwaysStarts ==
    /\ pendingFx = {"mount"}
    /\ audioRef' \in BOOLEAN
    /\ gameStarted' = TRUE
    /\ SetEngine(resetGame(Engine))
    /\ SetTimer(startTimer(Timer, mountTimer))
    /\ calls' = <<"resetGame", "onStart">>
    /\ run' = NoRun
    /\ loopCleanup' = FALSE
    /\ pendingFx' = {}
    /\ UNCHANGED <<lifecycle, mountTimer, view, loopVars, audioPlaying, returned>>

MountEffects ==
    /\ pendingFx = {"mount"}
    \* "Initialize audio": new Audio(...) may throw, which is caught
    /\ audioRef' \in BOOLEAN
    \* "Start game when component mounts"
    /\ gameStarted' = TRUE
    /\ SetEngine(resetGame(Engine))
    /\ IF ~mountTimer.isRunning
       THEN /\ SetTimer(startTimer(Timer, mountTimer))
            /\ calls' = <<"resetGame", "onStart">>
       ELSE /\ UNCHANGED timerVars
            /\ calls' = <<"resetGame">>
    /\ run' = NoRun
    \* "Game loop": gameStarted is false in this render, the effect returns
    /\ loopCleanup' = FALSE
    /\ pendingFx' = {}
    /\ UNCHANGED <<lifecycle, mountTimer, view, loopVars, audioPlaying, returned>>

\* a later commit that changed the dependencies of the loop effect: its
\* cleanup, when the last run returned one, and its body
LoopEffect ==
    /\ pendingFx = {"loop"}
    /\ LET cleaned == IF loopCleanup THEN cleanupLoop(rafQueue, gameLoopRef)
                      ELSE rafQueue
           starts == view.gameStarted /\ ctxAvailable
           id == FreshId(Ids(cleaned))
       IN  /\ rafQueue' = IF starts
                          THEN cleaned \cup {[id |-> id, gameStarted |-> view.gameStarted,
                                              gameOver |-> view.gameOver, last |-> 0]}
                          ELSE cleaned
           /\ gameLoopRef' = IF starts THEN id
                             ELSE IF loopCleanup THEN 0 ELSE gameLoopRef
           /\ loopCleanup' = starts
           /\ calls' = (IF loopCleanup /\ gameLoopRef # 0
                        THEN <<"cancelAnimationFrame">> ELSE <<>>)
                       \o (IF starts THEN <<"requestAnimationFrame">> ELSE <<>>)
    /\ run' = NoRun
    /\ pendingFx' = {}
    /\ UNCHANGED <<timerVars, lifecycle, mountTimer, engineVars, view, audioVars, offPage,
                   returned>>

\* PlatformerGame left the page: the cleanups of its effects, in order.
\* The instance is gone afterwards; its state is put back to the initial
\* values, from which the next instance starts.
UnmountEffects ==
    /\ pendingFx = {"unmount"}
    /\ lifecycle' = "unmounted"
    \* audio effect cleanup: pause and drop the element, cancel the loop;
    \* loop effect cleanup (when its last run returned one): the same cancel
    /\ audioRef' = FALSE
    /\ audioPlaying' = FALSE
    /\ rafQueue' = cleanupLoop(rafQueue, gameLoopRef)
    /\ gameLoopRef' = 0
    \* mount effect cleanup: timerState and onPause are those of the first render
    /\ IF mountTimer.isRunning
       THEN /\ SetTimer(pauseTimer(Timer, mountTimer))
            /\ calls' = (IF audioRef THEN <<"audio.pause">> ELSE <<>>)
                        \o (IF gameLoopRef # 0 THEN <<"cancelAnimationFrame">> ELSE <<>>)
                        \o <<"onPause">>
       ELSE /\ UNCHANGED timerVars
            /\ calls' = (IF audioRef THEN <<"audio.pause">> ELSE <<>>)
                        \o (IF gameLoopRef # 0 THEN <<"cancelAnimationFrame">> ELSE <<>>)
    /\ run' = NoRun
    /\ gameStarted' = FALSE
    /\ SetEngine(resetGame(Engine))
    /\ view' = InitialView
    /\ loopCleanup' = FALSE
    /\ returned' = 0
    /\ mountTimer' = InitialTimerState
    /\ pendingFx' = {}

FlushEffects ==
    /\ (MountEffects \/ LoopEffect \/ UnmountEffects)
    /\ UNCHANGED <<viewTimer, ctxAvailable, sync, offPage>>

\* the synchronous flush of a click has nothing left to do
SyncDone ==
    /\ sync /\ pendingFx = {} /\ ~Dirty
    /\ sync' = FALSE
    /\ run' = NoRun
    /\ calls' = <<>>
    /\ UNCHANGED <<timerVars, viewTimer, lifecycle, mountTimer, engineVars, view,
                   pendingFx, loopCleanup, loopVars, ctxAvailable, audioVars, offPage,
                   returned>>


(***************************************************************************)
(* Clicks.  Each is a discrete event: React renders its updates and runs   *)
(* their effects before anything else happens (sync).  A click inside the  *)
(* game bubbles to the container's onClick, handleUserInteraction.         *)
(***************************************************************************)
\* "Return to Timer": handleReturn
HandleReturn ==
    /\ lifecycle = "mounted" /\ ~sync
    /\ audioPlaying' = IF audioRef THEN FALSE ELSE audioPlaying
    /\ rafQueue' = cancelLoop(rafQueue, gameLoopRef)
    /\ gameLoopRef' = 0
    /\ SetTimer(handleReturnFromGame(Timer))
    /\ returned' = returned + 1
    /\ run' = NoRun
    /\ calls' = (IF audioRef THEN <<"audio.pause">> ELSE <<>>)
                \o (IF gameLoopRef # 0 THEN <<"cancelAnimationFrame">> ELSE <<>>)
                \o <<"onReturn">>
    /\ sync' = TRUE
    /\ UNCHANGED <<viewTimer, lifecycle, mountTimer, engineVars, view, pendingFx,
                   loopCleanup, ctxAvailable, audioRef, offPage>>

\* "Play Again", shown by a render that read gameOver: resetGame
PlayAgain ==
    /\ lifecycle = "mounted" /\ ~sync /\ view.gameOver
    /\ SetEngine(resetGame(Engine))
    /\ run' = NoRun
    /\ calls' = <<"resetGame">>
    /\ sync' = TRUE
    /\ UNCHANGED <<timerVars, viewTimer, lifecycle, mountTimer, gameStarted, view,
                   pendingFx, loopCleanup, loopVars, ctxAvailable, audioVars, offPage,
                   returned>>

\* BreakMode's activity buttons, on the page while the game is not shown.
\* The user does not get back to them within the 100 ms of an auto-start.
SelectBreakActivity(activity) ==
    /\ lifecycle = "unmounted" /\ ~sync /\ viewTimer.mode = "break"
    /\ timeouts = {}
    /\ SetTimer(selectBreakActivity(Timer, activity, viewTimer))
    /\ run' = NoRun
    /\ calls' = <<>>
    /\ sync' = TRUE
    /\ UNCHANGED <<viewTimer, lifecycle, mountTimer, engineVars, view, pendingFx,
                   loopCleanup, loopVars, ctxAvailable, audioVars, offPage, returned>>

\* the Start button of FocusMode and BreakMode: handleStartTimer
StartClick ==
    /\ lifecycle = "unmounted" /\ ~sync
    /\ SetTimer(startTimer(Timer, viewTimer))
    /\ run' = NoRun
    /\ calls' = <<"startTimer">>
    /\ sync' = TRUE
    /\ UNCHANGED <<viewTimer, lifecycle, mountTimer, engineVars, view, pendingFx,
                   loopCleanup, loopVars, ctxAvailable, audioVars, offPage, returned>>

(***************************************************************************)
(* Everything else that the browser runs.                                  *)
(***************************************************************************)
\* the 100 ms timeout of selectBreakActivity: startTimer of the render that
\* created it
AutoStart(t) ==
    /\ ~sync /\ t \in timeouts
    /\ SetTimer(startTimer([Timer EXCEPT !.tmo = @ \ {t}], t.snap))
    /\ run' = NoRun
    /\ calls' = <<"startTimer">>
    /\ UNCHANGED <<viewTimer, lifecycle, mountTimer, engineVars, view, pendingFx,
                   loopCleanup, loopVars, ctxAvailable, audioVars, offPage, sync, returned>>

\* a countdown interval fires.  It fires once a second and a timeout after
\* 100 ms: no timeout is still pending at the second firing after its request.
TimerTick(id) ==
    /\ ~sync /\ id \in intervals
    /\ \A t \in timeouts : ~t.late
    /\ SetTimer(intervalCallback([Timer EXCEPT
                    !.tmo = {[t EXCEPT !.late = TRUE] : t \in @}]))
    /\ run' = NoRun
    /\ calls' = <<>>
    /\ UNCHANGED <<viewTimer, lifecycle, mountTimer, engineVars, view, pendingFx,
                   loopCleanup, loopVars, ctxAvailable, audioVars, offPage, sync, returned>>

\* the Audio element starts playing: it fired canplaythrough, play() was
\* called by the play effect or by handleUserInteraction, and its promise
\* resolved, which sets audioPlaying
AudioStarts ==
    /\ ~sync /\ lifecycle = "mounted" /\ audioRef /\ gameStarted /\ ~audioPlaying
    /\ audioPlaying' = TRUE
    /\ run' = NoRun
    /\ calls' = <<>>
    /\ UNCHANGED <<timerVars, viewTimer, lifecycle, mountTimer, engineVars, view,
                   pendingFx, loopCleanup, loopVars, ctxAvailable, audioRef,
                   offPage, sync, returned>>

\* the canvas gets a drawing context
ContextAppears ==
    /\ ~sync /\ ~ctxAvailable
    /\ ctxAvailable' = TRUE
    /\ run' = NoRun
    /\ calls' = <<>>
    /\ UNCHANGED <<timerVars, viewTimer, lifecycle, mountTimer, engineVars, view,
                   pendingFx, loopCleanup, loopVars, audioVars, offPage, sync, returned>>

Activities == {"game"}

(***************************************************************************)
(* chromeUtils: playSingleAudio in an extension context.  Every tab runs   *)
(* the content script with a tabId of its own and the same timer, so the   *)
(* tabs call playSingleAudio for the same audioId within a moment of each  *)
(* other.  A call is a chain of tasks (the call, the storage write, the    *)
(* read-back, the continuation that plays, the timeout that removes the    *)
(* flag); the tasks of different tabs interleave freely.                   *)
(***************************************************************************)
\* process.env.OPENAI_API_KEY is not set
NoKey == ""

NumTabs == 2
Tabs == 1..NumTabs

AUDIO_THROTTLE_MS == 3000

\* Date.now() at the calls: within half a second of each other
CallTimes == {5000, 5400}

\* globalThis.tabId: a fresh uuid per tab
tabId(t) == t

\* nothing stored under audioFlagKey: get resolves null
NoFlag == [playing |-> FALSE, timestamp |-> 0, tabId |-> 0]

\* a tab before its call; lastPlayTime is audioPlayTimes.get(audioId) || 0
NoCall ==
    [pc |-> "idle", now |-> 0, currentState |-> NoFlag, lastPlayTime |-> 0,
     plays |-> 0]

NoAudioCalls ==
    /\ tabs = [t \in Tabs |-> NoCall]
    /\ audioFlag = NoFlag

\* the keys the hook saves under: TIMER_STATE_KEY and TIMER_LAST_UPDATE_KEY
StorageKeys == {"focusflow_timer_state", "focusflow_timer_last_update"}

\* nothing is saved under SETTINGS_KEY
NoSettings == [focusDuration |-> 0, breakDuration |-> 0]

\* defaultTimerSettings of timerUtils, in minutes
defaultTimerSettings == [focusDuration |-> 25, breakDuration |-> 5]

\* the settings as they are while the durations are the fixed FocusSeconds
\* and BreakSeconds of Duration
SettingsAtRest ==
    /\ settings = defaultTimerSettings
    /\ settingsRef = defaultTimerSettings
    /\ storedSettings = NoSettings

\* no write is queued and the storage areas are empty
NoValue == 0
\* debounce: timeout is null
NoTimeout == [key |-> "none", value |-> NoValue]
QueueAtRest ==
    /\ storageQueue = <<>>
    /\ chromeStorage = [area \in {"sync", "local"} |->
                           [key \in StorageKeys |-> NoValue]]
    /\ debounceTimeout = NoTimeout
    /\ broadcast = [key \in StorageKeys |-> NoValue]

\* no listener is registered
ListenAtRest ==
    /\ activeListeners = {}
    /\ onMessage = {}
    /\ unsubscribes = {}

\* the background has relayed nothing
RelayAtRest ==
    /\ messageCache = {}
    /\ relayedAgo = {}

\* the tab has not called playSingleAudio
NumCalls == 2
Calls == 1..NumCalls
NotCalled == [pc |-> "idle", now |-> 0, currentState |-> NoFlag, played |-> FALSE]
CallsAtRest ==
    /\ audioCalls = [c \in Calls |-> NotCalled]
    /\ audioPlayTimes = 0

\* openaiUtils as loaded: no key cached, none stored by the user, no call
NoCache == [cachedApiKey |-> NoKey, lastFetchTime |-> 0]
NoAiCall == [op |-> "none", pc |-> "idle", forceRefresh |-> FALSE,
             retries |-> 0, outcomes |-> <<>>, delays |-> <<>>,
             requests |-> <<>>, failed |-> <<>>,
             result |-> "none"]
KeysAtRest ==
    /\ keyCache = NoCache
    /\ localKey = NoKey
    /\ ai = NoAiCall

FarAtRest == ListenAtRest /\ RelayAtRest /\ CallsAtRest /\ KeysAtRest

\* no loadStoredTimerState call is in flight
NoLoad == [at |-> "none", storedState |-> NothingStored, elapsed |-> 0]

\* everything off the page as it is while the page is looked at alone
OffPageIdle ==
    /\ NoAudioCalls
    /\ openaiApiKey = NoKey
    /\ loading = NoLoad
    /\ SettingsAtRest
    /\ QueueAtRest
    /\ FarAtRest

AudioRest ==
    UNCHANGED <<timerVars, viewTimer, lifecycle, mountTimer, engineVars, view,
                pendingFx, loopCleanup, loopVars, ctxAvailable, audioRef,
                audioPlaying, sync, returned, calls, run, openaiApiKey,
                loading, settingsVars, queueVars, farVars>>

\* handleTimerCompletion calls playSingleAudio(audioElement, audioId): up to
\* the first await
PlaySingleAudio(t, audioElement, now) ==
    /\ tabs[t].pc = "idle"
    /\ tabs' = IF ~audioElement THEN tabs
               ELSE IF now - tabs[t].lastPlayTime < AUDIO_THROTTLE_MS THEN tabs
               ELSE [tabs EXCEPT ![t].pc = "save", ![t].now = now]
    /\ UNCHANGED audioFlag
    /\ AudioRest

\* saveToLocalStorage(audioFlagKey, {playing, timestamp, tabId}) is written
SaveFlag(t) ==
    /\ tabs[t].pc = "save"
    /\ audioFlag' = [playing |-> TRUE, timestamp |-> tabs[t].now,
                     tabId |-> tabId(t)]
    /\ tabs' = [tabs EXCEPT ![t].pc = "get"]
    /\ AudioRest

\* getFromLocalStorage(audioFlagKey) reads the value
GetFlag(t) ==
    /\ tabs[t].pc = "get"
    /\ tabs' = [tabs EXCEPT ![t].pc = "check", ![t].currentState = audioFlag]
    /\ UNCHANGED audioFlag
    /\ AudioRest

\* the continuation after the read-back: play when the flag is this tab's
PlayIfOwner(t) ==
    /\ tabs[t].pc = "check"
    /\ tabs' = IF /\ tabs[t].currentState # NoFlag
                  /\ tabs[t].currentState.tabId = tabId(t)
               THEN [tabs EXCEPT ![t].plays = @ + 1,
                                 ![t].lastPlayTime = tabs[t].now,
                                 ![t].pc = "timeout"]
               ELSE [tabs EXCEPT ![t].pc = "done"]
    /\ UNCHANGED audioFlag
    /\ AudioRest

\* the timeout set after playing: saveToLocalStorage(audioFlagKey, null)
RemoveFlag(t) ==
    /\ tabs[t].pc = "timeout"
    /\ audioFlag' = NoFlag
    /\ tabs' = [tabs EXCEPT ![t].pc = "done"]
    /\ AudioRest

\* the page as useTimer constructs it: a focus session that was not started
TimerInit ==
    /\ timerState = InitialTimerState
    /\ viewTimer = InitialTimerState
    /\ stored = NothingStored
    /\ sinceUpdate = 0

\* the page at the start of a break: what handleTimerCompletion("focus") leaves
BreakState ==
    [mode |-> "break", timeRemaining |-> Duration("break"), isRunning |-> FALSE,
     breakActivity |-> "null", completed |-> TRUE]

BreakInit ==
    /\ timerState = BreakState
    /\ viewTimer = BreakState
    /\ stored = BreakState
    /\ sinceUpdate = 0

\* no game on the page, no timer of the window pending
Idle ==
    /\ intervalRef = 0
    /\ intervals = {}
    /\ timeouts = {}
    /\ lifecycle = "unmounted"
    /\ mountTimer = InitialTimerState
    /\ gameStarted = FALSE
    /\ gameState = initialGameState
    /\ character = initialCharacter
    /\ coins = initialCoins
    /\ view = InitialView
    /\ pendingFx = {}
    /\ loopCleanup = FALSE
    /\ gameLoopRef = 0
    /\ rafQueue = {}
    /\ ctxAvailable \in BOOLEAN
    /\ audioRef = FALSE
    /\ audioPlaying = FALSE
    /\ sync = FALSE
    /\ returned = 0
    /\ calls = <<>>
    /\ run = NoRun

(***************************************************************************)
(* Spec: a break with the game.  The page is in break mode, the user       *)
(* selects the game, plays, and returns or lets the break run out.         *)
(***************************************************************************)
Init == BreakInit /\ Idle /\ OffPageIdle

Next ==
    \/ \E delta \in RefreshDeltas, intent \in Intents : Refresh(delta, intent)
    \/ Render
    \/ FlushEffects
    \/ SyncDone
    \/ HandleReturn
    \/ PlayAgain
    \/ \E activity \in Activities : SelectBreakActivity(activity)
    \/ \E t \in timeouts : AutoStart(t)
    \/ \E id \in intervals : TimerTick(id)
    \/ AudioStarts
    \/ ContextAppears

Spec == Init /\ [][Next]_vars

(***************************************************************************)
(* TimerSpec: the page and its countdown from construction on, the game    *)
(* being mounted and torn down but its frames not followed.                *)
(***************************************************************************)
TimerSpecInit == TimerInit /\ Idle /\ OffPageIdle

TimerNext ==
    \/ Render
    \/ FlushEffects
    \/ SyncDone
    \/ HandleReturn
    \/ \E activity \in Activities : SelectBreakActivity(activity)
    \/ StartClick
    \/ \E t \in timeouts : AutoStart(t)
    \/ \E id \in intervals : TimerTick(id)

TimerSpec == TimerSpecInit /\ [][TimerNext]_vars

(***************************************************************************)
(* PhysicsSpec: the tick of section 4.1 on both axes, on a small level:    *)
(* a ground with a pit behind it, a shelf, a solid hazardous obstacle on   *)
(* the ground and a coin.  y grows downwards, as on the canvas.  The       *)
(* character, the coins and the game state are kept in character, coins    *)
(* and gameState; run keeps the character as integrated by step 4, before  *)
(* the collisions are resolved; calls names the step.                      *)
(***************************************************************************)
\* the character is followed while its x is at most this
PhysMaxX == 18

gravity == 1
maxFallSpeed == 3
jumpImpulse == 4
fallOutThreshold == 10
levelCharacter ==
    [x |-> 0, y |-> 6, vx |-> 0, vy |-> 0, width |-> 2, height |-> 2,
     onGround |-> TRUE]
levelPlatforms ==
    <<[x |-> 0, y |-> 8, width |-> 14, height |-> 2],
      [x |-> 4, y |-> 4, width |-> 4, height |-> 1]>>
levelObstacles ==
    <<[x |-> 10, y |-> 6, width |-> 2, height |-> 2, hazard |-> TRUE, solid |-> TRUE]>>
levelCoins ==
    <<[x |-> 3, y |-> 7, width |-> 1, height |-> 1, collected |-> FALSE],
      [x |-> 10, y |-> 5, width |-> 1, height |-> 1, collected |-> FALSE]>>

Bottom(c) == c.y + c.height
OverlapsX(a, b) == a.x < b.x + b.width /\ b.x < a.x + a.width
OverlapsY(a, b) == a.y < b.y + b.height /\ b.y < a.y + a.height
OverlapsBox(a, b) == OverlapsX(a, b) /\ OverlapsY(a, b)
Min(a, b) == IF a < b THEN a ELSE b

\* steps 1 to 4: intent, gravity, jump, integration
integrate(c, intent, jump) ==
    LET vx == CASE intent = "right" -> walkSpeed
                [] intent = "left" -> -walkSpeed
                [] OTHER -> Decay(c.vx)
        fall == Min(c.vy + gravity, maxFallSpeed)
        jumps == jump /\ c.onGround
        vy == IF jumps THEN -jumpImpulse ELSE fall
    IN  [c EXCEPT !.vx = vx, !.vy = vy, !.x = @ + vx, !.y = @ + vy,
                  !.onGround = IF jumps THEN FALSE ELSE @]

\* a landing that stops the fall but leaves the character where step 4 put it
stopWithoutSnap(prev, c) ==
    LET crossed == {i \in DOMAIN levelPlatforms :
                       /\ OverlapsX(c, levelPlatforms[i])
                       /\ Bottom(prev) <= levelPlatforms[i].y
                       /\ Bottom(c) >= levelPlatforms[i].y}
    IN  IF crossed = {} THEN c ELSE [c EXCEPT !.vy = 0, !.onGround = TRUE]

\* step 5: the platforms the character fell onto; it lands on the highest
landOnPlatforms(prev, c) ==
    LET crossed == {i \in DOMAIN levelPlatforms :
                       /\ OverlapsX(c, levelPlatforms[i])
                       /\ Bottom(prev) <= levelPlatforms[i].y
                       /\ Bottom(c) >= levelPlatforms[i].y}
        top == CHOOSE t \in {levelPlatforms[i].y : i \in crossed} :
                   \A i \in crossed : t <= levelPlatforms[i].y
    IN  IF crossed = {} THEN c
        ELSE [c EXCEPT !.y = top - c.height, !.vy = 0, !.onGround = TRUE]

\* a horizontal contact that stops the character inside the obstacle
stopWithoutClamp(prev, c) ==
    LET entered == {i \in DOMAIN levelObstacles :
                       /\ levelObstacles[i].solid
                       /\ OverlapsBox(c, levelObstacles[i])
                       /\ ~OverlapsBox(prev, levelObstacles[i])}
    IN  IF entered = {} \/ c.vx = 0 THEN c ELSE [c EXCEPT !.vx = 0]

\* step 6: a solid rectangle the character did not overlap before and
\* overlaps now stops it at the contact boundary in its direction of travel
blockAtObstacles(prev, c) ==
    LET entered == {i \in DOMAIN levelObstacles :
                       /\ levelObstacles[i].solid
                       /\ OverlapsBox(c, levelObstacles[i])
                       /\ ~OverlapsBox(prev, levelObstacles[i])}
        o == levelObstacles[CHOOSE i \in entered : TRUE]
    IN  IF entered = {} \/ c.vx = 0 THEN c
        ELSE IF c.vx > 0 THEN [c EXCEPT !.x = o.x - c.width, !.vx = 0]
        ELSE [c EXCEPT !.x = o.x + o.width, !.vx = 0]

touchesHazard(c) ==
    \E i \in DOMAIN levelObstacles :
        levelObstacles[i].hazard /\ OverlapsBox(c, levelObstacles[i])

fellOut(c) == c.y > fallOutThreshold

\* a tick that looks for coins before it looks for hazards
pickupBeforeHazard(E, intent, jump) ==
    LET c == blockAtObstacles(E.ch, landOnPlatforms(E.ch, integrate(E.ch, intent, jump)))
        picked == {i \in DOMAIN E.coins :
                      ~E.coins[i].collected /\ OverlapsBox(c, E.coins[i])}
    IN  [ch |-> c,
         coins |-> [i \in DOMAIN E.coins |->
                       IF i \in picked THEN [E.coins[i] EXCEPT !.collected = TRUE]
                       ELSE E.coins[i]],
         gs |-> [gameOver |-> touchesHazard(c) \/ fellOut(c),
                 score |-> E.gs.score + coinValue * Cardinality(picked)]]

\* steps 1 to 9 of one tick
physicsTick(E, intent, jump) ==
    LET c == blockAtObstacles(E.ch, landOnPlatforms(E.ch, integrate(E.ch, intent, jump)))
        picked == {i \in DOMAIN E.coins :
                      ~E.coins[i].collected /\ OverlapsBox(c, E.coins[i])}
        E8 == [ch |-> c,
               coins |-> [i \in DOMAIN E.coins |->
                             IF i \in picked
                             THEN [E.coins[i] EXCEPT !.collected = TRUE]
                             ELSE E.coins[i]],
               gs |-> [E.gs EXCEPT !.score = @ + coinValue * Cardinality(picked)]]
    IN  IF touchesHazard(c)
        THEN [E EXCEPT !.ch = c, !.gs = [@ EXCEPT !.gameOver = TRUE]]
        ELSE IF fellOut(c) THEN [E8 EXCEPT !.gs = [@ EXCEPT !.gameOver = TRUE]]
        ELSE E8

PhysIntents == {"none", "left", "right"}

\* the loop driver makes a tick of a game that is not over
PhysicsTick(intent, jump) ==
    LET E == physicsTick(Engine, intent, jump)
    IN  /\ ~gameState.gameOver
        /\ E.ch.x \in 0..PhysMaxX
        /\ SetEngine(E)
        /\ run' = integrate(character, intent, jump)
        /\ calls' = <<"updateGame">>
        /\ UNCHANGED <<timerVars, viewTimer, lifecycle, mountTimer, gameStarted,
                       view, pendingFx, loopCleanup, loopVars, ctxAvailable,
                       audioVars, offPage, sync, returned>>

\* "Play Again" on a finished game
PhysicsReset ==
    /\ gameState.gameOver
    /\ character' = levelCharacter
    /\ coins' = levelCoins
    /\ gameState' = initialGameState
    /\ run' = NoRun
    /\ calls' = <<"resetGame">>
    /\ UNCHANGED <<timerVars, viewTimer, lifecycle, mountTimer, gameStarted,
                   view, pendingFx, loopCleanup, loopVars, ctxAvailable,
                   audioVars, offPage, sync, returned>>

PhysicsInit ==
    /\ BreakInit
    /\ intervalRef = 0 /\ intervals = {} /\ timeouts = {}
    /\ lifecycle = "mounted" /\ mountTimer = BreakState
    /\ gameStarted = TRUE
    /\ gameState = initialGameState
    /\ character = levelCharacter
    /\ coins = levelCoins
    /\ view = [InitialView EXCEPT !.gameStarted = TRUE]
    /\ pendingFx = {} /\ loopCleanup = FALSE
    /\ gameLoopRef = 0 /\ rafQueue = {}
    /\ ctxAvailable = TRUE
    /\ audioRef = FALSE /\ audioPlaying = FALSE
    /\ sync = FALSE /\ returned = 0
    /\ calls = <<>> /\ run = NoRun
    /\ OffPageIdle

PhysicsNext ==
    \/ \E intent \in PhysIntents, jump \in BOOLEAN : PhysicsTick(intent, jump)
    \/ PhysicsReset

PhysicsSpec == PhysicsInit /\ [][PhysicsNext]_vars

(***************************************************************************)
(* HookSpec: useTimer in an extension context, from construction, with the *)
(* Start, Pause and Reset buttons of the popup and the reloads from        *)
(* storage; no break activity is selected.  A reload is two tasks: the     *)
(* reads of the stored state and of the time of its last update, and what  *)
(* follows them; the clock and the page go on in between.                  *)
(***************************************************************************)
MaxElapsed == 2

\* the tab becomes visible (or the hook mounts): loadStoredTimerState reads
VisibilityChange ==
    /\ ~sync /\ loading = NoLoad
    /\ stored # NothingStored
    /\ loading' = [at |-> "read", storedState |-> stored,
                   elapsed |-> sinceUpdate]
    /\ run' = NoRun
    /\ calls' = <<>>
    /\ UNCHANGED <<timerVars, viewTimer, lifecycle, mountTimer, engineVars, view,
                   pendingFx, loopCleanup, loopVars, ctxAvailable, audioVars,
                   tabVars, openaiApiKey, queueVars, farVars, settingsVars, sync, returned>>

\* loadStoredTimerState after its reads
LoadContinues ==
    /\ ~sync /\ loading.at = "read"
    /\ SetTimer(loadStoredTimerState(Timer, loading.storedState, loading.elapsed))
    /\ loading' = NoLoad
    /\ run' = NoRun
    /\ calls' = <<"loadStoredTimerState">>
    /\ UNCHANGED <<viewTimer, lifecycle, mountTimer, engineVars, view, pendingFx,
                   loopCleanup, loopVars, ctxAvailable, audioVars, tabVars,
                   openaiApiKey, queueVars, farVars, settingsVars, sync, returned>>

\* a second goes by
TimePasses ==
    /\ ~sync
    /\ sinceUpdate < MaxElapsed /\ loading.elapsed < MaxElapsed
    /\ sinceUpdate' = sinceUpdate + 1
    /\ loading' = IF loading.at = "read"
                  THEN [loading EXCEPT !.elapsed = @ + 1] ELSE loading
    /\ run' = NoRun
    /\ calls' = <<>>
    /\ UNCHANGED <<timerState, intervalRef, intervals, timeouts, stored,
                   viewTimer, lifecycle, mountTimer, engineVars, view,
                   pendingFx, loopCleanup, loopVars, ctxAvailable, audioVars,
                   tabVars, openaiApiKey, queueVars, farVars, settingsVars, sync, returned>>

\* the Pause button of FocusMode and BreakMode: pauseTimer
PauseClick ==
    /\ lifecycle = "unmounted" /\ ~sync
    /\ SetTimer(pauseTimer(Timer, viewTimer))
    /\ run' = NoRun
    /\ calls' = <<"pauseTimer">>
    /\ sync' = TRUE
    /\ UNCHANGED <<viewTimer, lifecycle, mountTimer, engineVars, view, pendingFx,
                   loopCleanup, loopVars, ctxAvailable, audioVars, offPage, returned>>

\* the Reset button of FocusMode and BreakMode: resetTimer of the mode shown
ResetClick ==
    /\ lifecycle = "unmounted" /\ ~sync
    /\ SetTimer(resetTimer(Timer, viewTimer.mode))
    /\ run' = NoRun
    /\ calls' = <<"resetTimer">>
    /\ sync' = TRUE
    /\ UNCHANGED <<viewTimer, lifecycle, mountTimer, engineVars, view, pendingFx,
                   loopCleanup, loopVars, ctxAvailable, audioVars, offPage, returned>>

HookNext ==
    \/ Render
    \/ SyncDone
    \/ StartClick
    \/ PauseClick
    \/ ResetClick
    \/ \E id \in intervals : TimerTick(id)
    \/ VisibilityChange
    \/ LoadContinues
    \/ TimePasses

HookSpec == TimerSpecInit /\ [][HookNext]_vars

(***************************************************************************)
(* SettingsSpec: the popup of the installed extension, with the durations  *)
(* taken from the settings.  The background script writes its defaults,    *)
(* Index and useTimer load them, the user sets durations in the dialogs    *)
(* and runs the timer.  Nothing has been saved under TIMER_LAST_UPDATE_KEY *)
(* when the hook loads, so that the load takes the settings only.          *)
(***************************************************************************)
MaxMinutes == 1

\* the countdowns the model follows to their end, in seconds
MaxCountdown == 60 * MaxMinutes

\* the durations the user picks in the dialogs, in minutes
MinuteChoices == 1..MaxMinutes

\* minutesToSeconds of timerUtils
minutesToSeconds(minutes) == minutes * 60

\* the focusflow_settings of the background script's onInstalled listener
InstalledSettings == [focusDuration |-> 25 * 60, breakDuration |-> 5 * 60]

\* the duration handleTimerCompletion and resetTimer take for a mode
settingsDuration(mode) ==
    IF mode = "focus" THEN minutesToSeconds(settingsRef.focusDuration)
    ELSE minutesToSeconds(settingsRef.breakDuration)

\* handleTimerCompletion with the durations of settingsRef.current
settingsCompletion(T, currentMode) ==
    LET done == handleTimerCompletion(T, currentMode)
        newState == [done.ts EXCEPT !.timeRemaining = settingsDuration(done.ts.mode)]
    IN  [done EXCEPT !.ts = newState, !.sto = newState]

\* the interval callback, its completion with the durations of settingsRef
settingsCallback(T) ==
    IF T.ts.timeRemaining <= 1 THEN settingsCompletion(T, T.ts.mode)
    ELSE intervalCallback(T)

\* the background script's onInstalled listener.  The timer state it writes
\* has no TIMER_LAST_UPDATE_KEY beside it and loadStoredTimerState passes
\* it over.
OnInstalled ==
    /\ ~sync /\ storedSettings = NoSettings
    /\ storedSettings' = InstalledSettings
    /\ run' = NoRun
    /\ calls' = <<"onInstalled">>
    /\ UNCHANGED <<timerVars, viewTimer, lifecycle, mountTimer, engineVars, view,
                   pendingFx, loopCleanup, loopVars, ctxAvailable, audioVars,
                   tabVars, openaiApiKey, queueVars, farVars, loading, settings, settingsRef,
                   sync, returned>>

\* loadSettings of Index, with the render that follows setSettings and its
\* effect on settingsRef
LoadSettings ==
    /\ ~sync /\ storedSettings # NoSettings
    /\ settings' = storedSettings
    /\ settingsRef' = storedSettings
    /\ run' = NoRun
    /\ calls' = <<"loadSettings">>
    /\ UNCHANGED <<timerVars, viewTimer, lifecycle, mountTimer, engineVars, view,
                   pendingFx, loopCleanup, loopVars, ctxAvailable, audioVars,
                   tabVars, openaiApiKey, queueVars, farVars, loading, storedSettings,
                   sync, returned>>

\* loadStoredTimerState of the hook before anything was saved with its time:
\* settingsRef.current = storedSettings
LoadStoredSettings ==
    /\ ~sync /\ storedSettings # NoSettings
    /\ stored = NothingStored
    /\ settingsRef' = storedSettings
    /\ run' = NoRun
    /\ calls' = <<"loadStoredTimerState">>
    /\ UNCHANGED <<timerVars, viewTimer, lifecycle, mountTimer, engineVars, view,
                   pendingFx, loopCleanup, loopVars, ctxAvailable, audioVars,
                   tabVars, openaiApiKey, queueVars, farVars, loading, settings, storedSettings,
                   sync, returned>>

\* handleFocusDurationChange and handleBreakDurationChange of Index, with
\* updateFocusDuration and updateBreakDuration of the last render, the
\* effect on settingsRef and the save
DurationChange(mode, newDuration) ==
    LET newSettings == IF mode = "focus"
                       THEN [settings EXCEPT !.focusDuration = newDuration]
                       ELSE [settings EXCEPT !.breakDuration = newDuration]
    IN  /\ lifecycle = "unmounted" /\ ~sync
        /\ settings' = newSettings
        /\ settingsRef' = newSettings
        /\ storedSettings' = newSettings
        /\ timerState' = IF ~viewTimer.isRunning /\ viewTimer.mode = mode
                         THEN [timerState EXCEPT
                                  !.timeRemaining = minutesToSeconds(newDuration)]
                         ELSE timerState
        /\ run' = NoRun
        /\ calls' = <<"updateDuration">>
        /\ sync' = TRUE
        /\ UNCHANGED <<intervalRef, intervals, timeouts, stored, sinceUpdate,
                       viewTimer, lifecycle, mountTimer, engineVars, view,
                       pendingFx, loopCleanup, loopVars, ctxAvailable, audioVars,
                       tabVars, openaiApiKey, queueVars, farVars, loading, returned>>

\* an interval fires, in a countdown the model follows
SettingsTick(id) ==
    /\ ~sync /\ id \in intervals
    /\ timerState.timeRemaining <= MaxCountdown
    /\ SetTimer(settingsCallback(Timer))
    /\ run' = NoRun
    /\ calls' = <<>>
    /\ UNCHANGED <<viewTimer, lifecycle, mountTimer, engineVars, view, pendingFx,
                   loopCleanup, loopVars, ctxAvailable, audioVars, offPage, sync,
                   returned>>

SettingsInit ==
    /\ timerState = [InitialTimerState EXCEPT !.timeRemaining =
                        minutesToSeconds(defaultTimerSettings.focusDuration)]
    /\ viewTimer = timerState
    /\ stored = NothingStored
    /\ sinceUpdate = 0
    /\ Idle
    /\ OffPageIdle

SettingsNext ==
    \/ Render
    \/ SyncDone
    \/ StartClick
    \/ OnInstalled
    \/ LoadSettings
    \/ LoadStoredSettings
    \/ \E mode \in {"focus", "break"}, newDuration \in MinuteChoices :
           DurationChange(mode, newDuration)
    \/ \E id \in intervals : SettingsTick(id)

SettingsSpec == SettingsInit /\ [][SettingsNext]_vars

(***************************************************************************)
(* QueueSpec: the storage writes of a page in an extension context.        *)
(* saveToStorage and saveToLocalStorage chain their operation on           *)
(* storageQueue; an operation calls chrome.storage's set when the promise  *)
(* before it in the chain is fulfilled, and the callback of set settles    *)
(* the promise the caller got and the one of the chain.                    *)
(***************************************************************************)
MaxWrites == 3

\* the values written
StorageValues == {1, 2}

\* the operation a call of saveToStorage ("sync") or saveToLocalStorage
\* ("local") chains: not started, the caller's promise and the promise of
\* the chain pending
queuedWrite(area, key, value) ==
    [area |-> area, key |-> key, value |-> value, at |-> "queued",
     lastError |-> FALSE, promise |-> "pending", chained |-> "pending"]

\* a callback that calls innerResolve() only beside resolve()
callbackResolvesOnSuccess(op, lastError) ==
    [op EXCEPT !.at = "done", !.lastError = lastError,
               !.promise = IF lastError THEN "rejected" ELSE "resolved",
               !.chained = IF lastError THEN "pending" ELSE "fulfilled"]

\* the callback of set: reject(lastError) or resolve(), then innerResolve()
setCallback(op, lastError) ==
    [op EXCEPT !.at = "done", !.lastError = lastError,
               !.promise = IF lastError THEN "rejected" ELSE "resolved",
               !.chained = "fulfilled"]

\* the calls of that callback
callbackCalls(op, lastError) ==
    IF lastError THEN <<"console.error", "reject", "innerResolve">>
    ELSE IF op.area = "local"
    THEN <<"debouncedBroadcast", "resolve", "innerResolve">>
    ELSE <<"resolve", "innerResolve">>

\* the function debounce returns, called with (key, value): the timeout
\* that is pending is cleared and one with these arguments is set
debounce(timeout, key, value) == [key |-> key, value |-> value]

\* storageQueue, the promise an operation is chained on, is fulfilled:
\* Promise.resolve() before the first, the promise of the one before it
\* for the others
chainFulfilled(q, i) ==
    IF i = 1 THEN TRUE ELSE q[i - 1].chained = "fulfilled"

QueueRest ==
    UNCHANGED <<timerVars, viewTimer, lifecycle, mountTimer, engineVars, view,
                pendingFx, loopCleanup, loopVars, ctxAvailable, audioVars,
                sync, returned, tabVars, openaiApiKey, loading, settingsVars,
                farVars>>

\* saveToStorage(key, value) or saveToLocalStorage(key, value)
Save(area, key, value) ==
    /\ Len(storageQueue) < MaxWrites
    /\ storageQueue' = Append(storageQueue, queuedWrite(area, key, value))
    /\ calls' = <<"storageQueue.then">>
    /\ run' = NoRun
    /\ UNCHANGED <<chromeStorage, debounceTimeout, broadcast>>
    /\ QueueRest

\* the function chained by the i-th call runs: chrome.storage[area].set
StartWrite(i) ==
    /\ storageQueue[i].at = "queued"
    /\ chainFulfilled(storageQueue, i)
    /\ storageQueue' = [storageQueue EXCEPT ![i].at = "setting"]
    /\ calls' = <<"set">>
    /\ run' = NoRun
    /\ UNCHANGED <<chromeStorage, debounceTimeout, broadcast>>
    /\ QueueRest

\* set has written the value, or failed and left chrome.runtime.lastError,
\* and calls back
WriteDone(i, lastError) ==
    /\ storageQueue[i].at = "setting"
    /\ storageQueue' = [storageQueue EXCEPT ![i] = setCallback(@, lastError)]
    /\ chromeStorage' = IF lastError THEN chromeStorage
                        ELSE [chromeStorage EXCEPT
                                 ![storageQueue[i].area][storageQueue[i].key] =
                                     storageQueue[i].value]
    /\ debounceTimeout' = IF ~lastError /\ storageQueue[i].area = "local"
                          THEN debounce(debounceTimeout, storageQueue[i].key,
                                        storageQueue[i].value)
                          ELSE debounceTimeout
    /\ calls' = callbackCalls(storageQueue[i], lastError)
    /\ run' = NoRun
    /\ UNCHANGED broadcast
    /\ QueueRest

\* the timeout of debouncedBroadcast fires, 250 ms after the call that set
\* it: chrome.runtime.sendMessage of the stateChange with its arguments
BroadcastFires ==
    /\ debounceTimeout # NoTimeout
    /\ broadcast' = [broadcast EXCEPT ![debounceTimeout.key] = debounceTimeout.value]
    /\ debounceTimeout' = NoTimeout
    /\ calls' = <<"sendMessage">>
    /\ run' = NoRun
    /\ UNCHANGED <<storageQueue, chromeStorage>>
    /\ QueueRest

QueueInit == TimerInit /\ Idle /\ ctxAvailable /\ OffPageIdle

QueueNext ==
    \/ \E area \in {"sync", "local"}, key \in StorageKeys, value \in StorageValues :
           Save(area, key, value)
    \/ \E i \in 1..Len(storageQueue) : StartWrite(i)
    \/ \E i \in 1..Len(storageQueue), lastError \in BOOLEAN : WriteDone(i, lastError)
    \/ BroadcastFires

QueueSpec == QueueInit /\ [][QueueNext]_vars

(***************************************************************************)
(* ListenSpec: one tab of the extension.  Its components subscribe to the  *)
(* state changes of the other tabs with listenForStateChanges and call the *)
(* unsubscribe functions they got; messages arrive at the tab's            *)
(* chrome.runtime.onMessage.                                               *)
(***************************************************************************)
MaxListens == 3

\* the callbacks the components pass
Callbacks == {"cb1", "cb2"}

\* the tabId of the messages the background script makes ('background')
backgroundTabId == 0

\* globalThis.tabId of this tab, and the tabIds messages carry
ownTabId == tabId(1)
TabIds == {tabId(t) : t \in Tabs} \cup {backgroundTabId}

\* the messages that arrive
Deliveries ==
    [action : {"stateChange", "updateSettings"}, key : StorageKeys,
     tabId : TabIds]

\* listenForStateChanges(callback), on L: the callbacks in activeListeners
\* (active), the listeners of onMessage (registered) and the unsubscribe
\* functions returned so far (returned)
listenForStateChanges(L, callback) ==
    LET wrappedCallback == [id |-> FreshId({u.wrapped.id : u \in L.returned}),
                            callback |-> callback]
    IN  [active |-> L.active \cup {callback},
         registered |-> IF callback \notin L.active
                        THEN L.registered \cup {wrappedCallback}
                        ELSE L.registered,
         returned |-> L.returned \cup {[wrapped |-> wrappedCallback,
                                        called |-> FALSE]}]

\* the function listenForStateChanges returned
unsubscribe(L, u) ==
    [active |-> L.active \ {u.wrapped.callback},
     registered |-> L.registered \ {u.wrapped},
     returned |-> (L.returned \ {u}) \cup {[u EXCEPT !.called = TRUE]}]

\* a wrappedCallback that does not look at the tabId of the message
wrappedCallsAnyTab(message, own) == message.action = "stateChange"

\* wrappedCallback(message) in the tab whose globalThis.tabId is own:
\* whether it calls its callback
wrappedCalls(message, own) ==
    message.action = "stateChange" /\ message.tabId # own

\* the callbacks the listeners in ws call for a message, in the order of
\* their registration
RECURSIVE Invocations(_, _)
Invocations(ws, message) ==
    IF ws = {} THEN <<>>
    ELSE LET w == CHOOSE x \in ws : \A y \in ws : x.id <= y.id
         IN  (IF wrappedCalls(message, ownTabId) THEN <<w.callback>> ELSE <<>>)
             \o Invocations(ws \ {w}, message)

Listeners == [active |-> activeListeners, registered |-> onMessage,
              returned |-> unsubscribes]

SetListeners(L) ==
    /\ activeListeners' = L.active
    /\ onMessage' = L.registered
    /\ unsubscribes' = L.returned

ListenRest ==
    UNCHANGED <<timerVars, viewTimer, lifecycle, mountTimer, engineVars, view,
                pendingFx, loopCleanup, loopVars, ctxAvailable, audioVars,
                sync, returned, tabVars, openaiApiKey, loading, settingsVars,
                queueVars, relayVars, callVars, keyVars>>

\* an effect of a component subscribes
Listen(callback) ==
    /\ Cardinality(unsubscribes) < MaxListens
    /\ SetListeners(listenForStateChanges(Listeners, callback))
    /\ calls' = <<"listenForStateChanges">>
    /\ run' = NoRun
    /\ ListenRest

\* the cleanup of an effect calls the function it got
Unsubscribe(u) ==
    /\ u \in unsubscribes
    /\ SetListeners(unsubscribe(Listeners, u))
    /\ calls' = <<"unsubscribe">>
    /\ run' = NoRun
    /\ ListenRest

\* a message arrives: every registered listener is called with it.  calls
\* holds the callbacks they invoked and run the message.
Deliver(message) ==
    /\ calls' = <<"onMessage">> \o Invocations(onMessage, message)
    /\ run' = message
    /\ UNCHANGED listenVars
    /\ ListenRest

ListenInit == TimerInit /\ Idle /\ ctxAvailable /\ OffPageIdle

ListenNext ==
    \/ \E callback \in Callbacks : Listen(callback)
    \/ \E u \in unsubscribes : Unsubscribe(u)
    \/ \E message \in Deliveries : Deliver(message)

ListenSpec == ListenInit /\ [][ListenNext]_vars

(***************************************************************************)
(* RelaySpec: the background script and the tabs of the browser.  A page   *)
(* sends a message with chrome.runtime.sendMessage; the background's       *)
(* onMessage listener relays a stateChange to the tabs, where the          *)
(* wrappedCallback of listenForStateChanges passes it to its callback.     *)
(* Time is counted in seconds.                                             *)
(***************************************************************************)
CACHE_EXPIRY_MS == 2000
CacheExpirySeconds == CACHE_EXPIRY_MS \div 1000

MaxCached == 2

\* sender.tab is undefined: the message comes from the popup
NoTab == 0

\* message.timestamp
Timestamps == {1, 2}

\* the keys the relay also writes to storage
RelayStoredKeys == {"focusflow_timer_state", "focusflow_settings"}

\* the messages that arrive at the background: the state changes of tab 1
\* and those carrying 'background', and a message that is no state change
Relayable ==
    [action : {"stateChange"}, key : StorageKeys,
     tabId : {tabId(1), backgroundTabId}, timestamp : Timestamps]
    \cup {[action |-> "updateSettings", key |-> "focusflow_settings",
           tabId |-> tabId(1), timestamp |-> 1]}

\* messageId: the action, key, tabId and timestamp joined with "-".  The
\* four parts have fixed shapes, so that two ids are equal exactly when the
\* parts are.
messageId(message) ==
    <<message.action, message.key, message.tabId, message.timestamp>>

Cached(cache) == {e.id : e \in cache}

\* a listener that does not look the message up in the cache
relayUncached(cache, message, sender) ==
    IF message.action # "stateChange"
    THEN [cache |-> cache, forwarded |-> {}, stored |-> FALSE]
    ELSE [cache |-> {e \in cache : e.id # messageId(message)}
                        \cup {[id |-> messageId(message), age |-> 0]},
          forwarded |-> {tab \in Tabs : sender = NoTab \/ tab # sender},
          stored |-> message.key \in RelayStoredKeys]

\* the background's listener for a message of sender (a tab or NoTab), on
\* the cache: the cache after it, the tabs chrome.tabs.sendMessage is
\* called for and whether chrome.storage.local.set is called
relay(cache, message, sender) ==
    IF message.action # "stateChange" \/ messageId(message) \in Cached(cache)
    THEN [cache |-> cache, forwarded |-> {}, stored |-> FALSE]
    ELSE [cache |-> cache \cup {[id |-> messageId(message), age |-> 0]},
          forwarded |-> {tab \in Tabs : sender = NoTab \/ tab # sender},
          stored |-> message.key \in RelayStoredKeys]

\* the tabs among those a message is forwarded to whose wrappedCallback
\* calls its callback
invokedIn(forwarded, message) ==
    {tab \in forwarded : wrappedCalls(message, tabId(tab))}

RelayRest ==
    UNCHANGED <<timerVars, viewTimer, lifecycle, mountTimer, engineVars, view,
                pendingFx, loopCleanup, loopVars, ctxAvailable, audioVars,
                sync, returned, tabVars, openaiApiKey, loading, settingsVars,
                queueVars, listenVars, callVars, keyVars>>

\* a message arrives at the background.  run holds the exchange.
Relay(message, sender) ==
    LET made == relay(messageCache, message, sender)
    IN  /\ Cardinality(made.cache) <= MaxCached
        /\ messageCache' = made.cache
        /\ relayedAgo' = IF made.forwarded # {} \/ made.stored
                         THEN {r \in relayedAgo : r.id # messageId(message)}
                              \cup {[id |-> messageId(message), age |-> 0]}
                         ELSE relayedAgo
        /\ run' = [message |-> message, sender |-> sender,
                   forwarded |-> made.forwarded, stored |-> made.stored,
                   invoked |-> invokedIn(made.forwarded, message)]
        /\ calls' = <<"relay">>
        /\ RelayRest

\* a second goes by
RelaySecond ==
    /\ messageCache' = {[e EXCEPT !.age = Min(@ + 1, CacheExpirySeconds)] :
                           e \in messageCache}
    /\ relayedAgo' = {[r EXCEPT !.age = @ + 1] :
                         r \in {x \in relayedAgo : x.age + 1 < CacheExpirySeconds}}
    /\ (messageCache' # messageCache \/ relayedAgo' # relayedAgo)
    /\ run' = NoRun
    /\ calls' = <<>>
    /\ RelayRest

\* the timeout set with a cache entry fires, CACHE_EXPIRY_MS after it or later
CacheExpires(e) ==
    /\ e \in messageCache /\ e.age >= CacheExpirySeconds
    /\ messageCache' = messageCache \ {e}
    /\ run' = NoRun
    /\ calls' = <<"messageCache.delete">>
    /\ UNCHANGED relayedAgo
    /\ RelayRest

RelayInit == TimerInit /\ Idle /\ ctxAvailable /\ OffPageIdle

RelayNext ==
    \/ \E message \in Relayable, sender \in Tabs \cup {NoTab} :
           Relay(message, sender)
    \/ RelaySecond
    \/ \E e \in messageCache : CacheExpires(e)

RelaySpec == RelayInit /\ [][RelayNext]_vars

(***************************************************************************)
(* OverlapSpec: the playSingleAudio calls of one tab for one audioId, in   *)
(* an extension context.  A call runs to its first await, and goes on      *)
(* after the flag is written and after it is read back; another call of    *)
(* the tab can start in between.  The calls are made within              *)
(* AUDIO_THROTTLE_MS of each other.                                        *)
(***************************************************************************)
OverlapRest ==
    UNCHANGED <<timerVars, viewTimer, lifecycle, mountTimer, engineVars, view,
                pendingFx, loopCleanup, loopVars, ctxAvailable, audioVars,
                sync, returned, tabs, openaiApiKey, loading, settingsVars,
                queueVars, listenVars, relayVars, keyVars, calls, run>>

\* playSingleAudio(audioElement, audioId) up to its first await: the
\* throttle test reads audioPlayTimes
CallPlaySingleAudio(c, now) ==
    /\ audioCalls[c].pc = "idle"
    /\ \A d \in Calls : audioCalls[d].now <= now
    /\ audioCalls' = IF now - audioPlayTimes < AUDIO_THROTTLE_MS
                     THEN [audioCalls EXCEPT ![c].pc = "done", ![c].now = now]
                     ELSE [audioCalls EXCEPT ![c].pc = "save", ![c].now = now]
    /\ UNCHANGED <<audioFlag, audioPlayTimes>>
    /\ OverlapRest

\* saveToLocalStorage(audioFlagKey, {playing, timestamp, tabId}) is written
CallSavesFlag(c) ==
    /\ audioCalls[c].pc = "save"
    /\ audioFlag' = [playing |-> TRUE, timestamp |-> audioCalls[c].now,
                     tabId |-> tabId(1)]
    /\ audioCalls' = [audioCalls EXCEPT ![c].pc = "get"]
    /\ UNCHANGED audioPlayTimes
    /\ OverlapRest

\* getFromLocalStorage(audioFlagKey) reads the value
CallGetsFlag(c) ==
    /\ audioCalls[c].pc = "get"
    /\ audioCalls' = [audioCalls EXCEPT ![c].pc = "check",
                                       ![c].currentState = audioFlag]
    /\ UNCHANGED <<audioFlag, audioPlayTimes>>
    /\ OverlapRest

\* the continuation after the read-back: audioElement.play() and
\* audioPlayTimes.set(audioId, now) when the flag is this tab's
CallPlaysIfOwner(c) ==
    /\ audioCalls[c].pc = "check"
    /\ IF /\ audioCalls[c].currentState # NoFlag
          /\ audioCalls[c].currentState.tabId = tabId(1)
       THEN /\ audioCalls' = [audioCalls EXCEPT ![c].played = TRUE,
                                               ![c].pc = "timeout"]
            /\ audioPlayTimes' = audioCalls[c].now
       ELSE /\ audioCalls' = [audioCalls EXCEPT ![c].pc = "done"]
            /\ UNCHANGED audioPlayTimes
    /\ UNCHANGED audioFlag
    /\ OverlapRest

\* the timeout set after playing: saveToLocalStorage(audioFlagKey, null)
CallRemovesFlag(c) ==
    /\ audioCalls[c].pc = "timeout"
    /\ audioFlag' = NoFlag
    /\ audioCalls' = [audioCalls EXCEPT ![c].pc = "done"]
    /\ UNCHANGED audioPlayTimes
    /\ OverlapRest

OverlapInit == TimerInit /\ Idle /\ ctxAvailable /\ OffPageIdle

OverlapNext ==
    \/ \E c \in Calls, now \in CallTimes : CallPlaySingleAudio(c, now)
    \/ \E c \in Calls : CallSavesFlag(c)
    \/ \E c \in Calls : CallGetsFlag(c)
    \/ \E c \in Calls : CallPlaysIfOwner(c)
    \/ \E c \in Calls : CallRemovesFlag(c)

OverlapSpec == OverlapInit /\ [][OverlapNext]_vars

(***************************************************************************)
(* KeySpec: openaiUtils.  One call at a time of fetchApiKeyFromFirestore or  *)
(* getAIResponse; each await whose outcome the network decides is a step.  *)
(* The Firestore read finds the key, finds no key, or fails with an error; *)
(* a request is answered with the content, answered with an error status,  *)
(* or fails (network error or timeout).                                    *)
(***************************************************************************)
CACHE_EXPIRY == 30 * 60 * 1000
MAX_RETRIES == 3
FirebaseKey == "sk-firebase"
UserKey == "sk-user"
ReadOutcomes == {"key", "missing", "error"}
Responses == {"content", "notOk", "throws"}
FetchTimes == {600000, 3000000}

KeyRest ==
    UNCHANGED <<timerVars, viewTimer, lifecycle, mountTimer, engineVars, view,
                pendingFx, loopCleanup, loopVars, ctxAvailable, audioVars,
                sync, returned, tabVars, openaiApiKey, loading, settingsVars,
                queueVars, listenVars, relayVars, callVars, calls, run>>

\* firebaseAdmin: getOpenAIApiKeyFromFirestore; the try around getDoc
\* catches every error and returns null
getOpenAIApiKeyFromFirestore(outcome) ==
    [threw |-> FALSE,
     value |-> IF outcome = "key" THEN FirebaseKey ELSE NoKey]

\* getApiKey(): the cached key first, then the user's own
getApiKey(cache, userApiKey) ==
    IF cache.cachedApiKey # NoKey THEN cache.cachedApiKey
    ELSE IF userApiKey # NoKey THEN userApiKey
    ELSE NoKey

\* getAIResponse after `await fetchApiKeyFromFirestore(true)`: the request
\* it makes first
firstRequest(a, cache, firebaseKey) ==
    IF firebaseKey # NoKey
    THEN [a EXCEPT !.pc = "firebaseRequest", !.requests = <<firebaseKey>>]
    ELSE LET userApiKey == getApiKey(cache, localKey)
         IN  IF userApiKey # NoKey
             THEN [a EXCEPT !.pc = "userRequest", !.requests = <<userApiKey>>]
             ELSE [a EXCEPT !.pc = "serverRequest", !.requests = <<"/api/chat">>]

\* fetchApiKeyFromFirestore returns value to its caller
fetchReturns(a, cache, value) ==
    IF a.op = "fetch"
    THEN [a EXCEPT !.pc = "done", !.result = value]
    ELSE firstRequest(a, cache, value)

\* setApiKey(key) / clearApiKey(), between calls
SetApiKey ==
    /\ ai.pc = "idle"
    /\ localKey' = UserKey
    /\ UNCHANGED <<keyCache, ai>>
    /\ KeyRest

ClearApiKey ==
    /\ ai.pc = "idle"
    /\ localKey' = NoKey
    /\ keyCache' = [keyCache EXCEPT !.cachedApiKey = NoKey]
    /\ UNCHANGED ai
    /\ KeyRest

\* fetchApiKeyFromFirestore(forceRefresh) is called
FetchApiKeyFromFirestore(forceRefresh) ==
    /\ ai.pc = "idle"
    /\ ai' = [NoAiCall EXCEPT !.op = "fetch", !.pc = "attempt",
                              !.forceRefresh = forceRefresh]
    /\ UNCHANGED <<keyCache, localKey>>
    /\ KeyRest

\* getAIResponse(message) is called: it awaits fetchApiKeyFromFirestore(true)
GetAIResponse ==
    /\ ai.pc = "idle"
    /\ ai' = [NoAiCall EXCEPT !.op = "getAIResponse", !.pc = "attempt",
                              !.forceRefresh = TRUE]
    /\ UNCHANGED <<keyCache, localKey>>
    /\ KeyRest

\* one run of the body of fetchApiKeyFromFirestore(forceRefresh, retries),
\* the backoff delay before the recursive call included
FetchAttempt(outcome, now) ==
    /\ ai.pc = "attempt"
    /\ keyCache.lastFetchTime <= now
    /\ IF /\ keyCache.cachedApiKey # NoKey
          /\ now - keyCache.lastFetchTime < CACHE_EXPIRY
          /\ ~ai.forceRefresh
       THEN /\ ai' = fetchReturns(ai, keyCache, keyCache.cachedApiKey)
            /\ UNCHANGED keyCache
       ELSE LET apiKey == getOpenAIApiKeyFromFirestore(outcome)
                read == [ai EXCEPT !.outcomes = Append(@, outcome)]
            IN  IF apiKey.threw
                THEN /\ UNCHANGED keyCache
                     /\ IF ai.retries < MAX_RETRIES
                        THEN ai' = [read EXCEPT
                                     !.delays = Append(@, (2 ^ ai.retries) * 1000),
                                     !.retries = @ + 1]
                        ELSE ai' = fetchReturns(read, keyCache, NoKey)
                ELSE IF apiKey.value # NoKey
                THEN LET cache == [cachedApiKey |-> apiKey.value,
                                   lastFetchTime |-> now]
                     IN  /\ keyCache' = cache
                         /\ ai' = fetchReturns(read, cache, apiKey.value)
                ELSE /\ UNCHANGED keyCache
                     /\ ai' = fetchReturns(read, keyCache, NoKey)
    /\ UNCHANGED localKey
    /\ KeyRest

\* getAIResponse: the request made with the Firebase key is settled
FirebaseResponse(response) ==
    /\ ai.pc = "firebaseRequest"
    /\ IF response = "content"
       THEN ai' = [ai EXCEPT !.pc = "done", !.result = "content"]
       ELSE LET userApiKey == getApiKey(keyCache, localKey)
                caught == [ai EXCEPT !.failed = Append(@, ai.requests[1])]
            IN  IF userApiKey # NoKey
                THEN ai' = [caught EXCEPT !.pc = "userRequest",
                                          !.requests = Append(@, userApiKey)]
                ELSE ai' = [caught EXCEPT !.pc = "done",
                                          !.result = "fallback"]
    /\ UNCHANGED <<keyCache, localKey>>
    /\ KeyRest

\* useUserApiKey(message, apiKey): its request is settled
UserResponse(response) ==
    /\ ai.pc = "userRequest"
    /\ ai' = [ai EXCEPT !.pc = "done",
                        !.result = IF response = "content" THEN "content"
                                   ELSE "fallback"]
    /\ UNCHANGED <<keyCache, localKey>>
    /\ KeyRest

\* getAIResponse: the request to /api/chat is settled
ServerResponse(response) ==
    /\ ai.pc = "serverRequest"
    /\ ai' = [ai EXCEPT !.pc = "done",
                        !.result = IF response = "content" THEN "content"
                                   ELSE "fallback"]
    /\ UNCHANGED <<keyCache, localKey>>
    /\ KeyRest

\* the caller has the result
CallSettled ==
    /\ ai.pc = "done"
    /\ ai' = NoAiCall
    /\ UNCHANGED <<keyCache, localKey>>
    /\ KeyRest

KeyInit == TimerInit /\ Idle /\ ctxAvailable /\ OffPageIdle

KeyNext ==
    \/ SetApiKey
    \/ ClearApiKey
    \/ \E forceRefresh \in BOOLEAN : FetchApiKeyFromFirestore(forceRefresh)
    \/ GetAIResponse
    \/ \E outcome \in ReadOutcomes, now \in FetchTimes :
           FetchAttempt(outcome, now)
    \/ \E response \in Responses : FirebaseResponse(response)
    \/ \E response \in Responses : UserResponse(response)
    \/ \E response \in Responses : ServerResponse(response)
    \/ CallSettled

KeySpec == KeyInit /\ [][KeyNext]_vars

(***************************************************************************)
(* AudioSpec: the tabs of the extension reach the end of a focus session.   *)
(***************************************************************************)
AudioInit == BreakInit /\ Idle /\ ctxAvailable /\ OffPageIdle

AudioNext ==
    \/ \E t \in Tabs, audioElement \in BOOLEAN, now \in CallTimes :
          PlaySingleAudio(t, audioElement, now)
    \/ \E t \in Tabs : SaveFlag(t)
    \/ \E t \in Tabs : GetFlag(t)
    \/ \E t \in Tabs : PlayIfOwner(t)
    \/ \E t \in Tabs : RemoveFlag(t)

AudioSpec == AudioInit /\ [][AudioNext]_vars

(***************************************************************************)
(* ChatSpec: the chat server.  A request body carries message and apiKey;  *)
(* a string is the sequence of its characters.  The OpenAI call either     *)
(* resolves with a completion or rejects; a message that is not a string   *)
(* is rejected by it.                                                      *)
(***************************************************************************)
ServerKeys == {NoKey, "sk-env"}
ClientKeys == {NoKey, "sk-client"}

Undefined == [type |-> "undefined", chars |-> <<>>]
Str(chars) == [type |-> "string", chars |-> chars]
\* a JSON number other than 0
Num == [type |-> "number", chars |-> <<>>]

Messages ==
    {Undefined, Num, Str(<<>>),
     Str(<<"H", "i">>),
     Str(<<"H", "e", "l", "l", "o">>),
     Str(<<"t", "h", "i", "s">>),
     Str(<<"h", "o", "w", " ", "a", "r", "e", " ", "y", "o", "u">>),
     Str(<<"T", "h", "a", "n", "k", "s">>),
     Str(<<"p", "l", "a", "n">>),
     Str(<<"f", "o", "c", "u", "s">>),
     Str(<<"t", "i", "p">>)}

\* !value
Falsy(value) == value.type = "undefined" \/ value = Str(<<>>)

toLowerCase(chars) ==
    [i \in 1..Len(chars) |->
        CASE chars[i] = "H" -> "h"
          [] chars[i] = "T" -> "t"
          [] OTHER -> chars[i]]

includes(chars, part) ==
    \E i \in 0..(Len(chars) - Len(part)) :
        SubSeq(chars, i + 1, i + Len(part)) = part

fallbackResponses ==
    <<"I'm here to help you stay focused and productive. What would you like assistance with today?",
      "Having a productive day? I can suggest techniques to help you maintain focus.",
      "Looking for a productivity tip? Regular breaks can actually improve your overall focus and output.",
      "Need help organizing your tasks? I recommend prioritizing them by importance and urgency.",
      "Remember that taking short breaks during focused work can help prevent burnout and maintain productivity.",
      "Is there something specific about productivity or focus that you'd like to learn more about?",
      "The Pomodoro Technique involves 25-minute focused work sessions followed by 5-minute breaks. Would you like to try it?",
      "Setting clear goals for each work session can significantly improve your productivity and focus.",
      "I'm here to support your productivity journey. What challenges are you facing today?",
      "Sometimes a change of environment can help refresh your focus. Have you tried working from a different location?">>

\* Math.floor(Math.random() * fallbackResponses.length)
RandomIndexes == 0..(Len(fallbackResponses) - 1)

\* message.toLowerCase is not a function
TypeError == "TypeError"

getFallbackResponse(message, randomIndex) ==
    IF message.type # "string" THEN TypeError
    ELSE IF \/ includes(toLowerCase(message.chars), <<"h", "e", "l", "l", "o">>)
            \/ includes(toLowerCase(message.chars), <<"h", "i">>)
         THEN "Hello! I'm your productivity assistant. How can I help you today?"
    ELSE IF includes(toLowerCase(message.chars),
                     <<"h", "o", "w", " ", "a", "r", "e", " ", "y", "o", "u">>)
         THEN "I'm functioning well and ready to help you with your productivity needs!"
    ELSE IF includes(toLowerCase(message.chars), <<"t", "h", "a", "n", "k">>)
         THEN "You're welcome! Feel free to ask if you need more assistance."
    ELSE fallbackResponses[randomIndex + 1]

\* res.status(...).json(...)
Response(status, content, usingFallback, error) ==
    [status |-> status, content |-> content, usingFallback |-> usingFallback,
     error |-> error]

\* the outer catch
ErrorProcessing == Response(500, "", FALSE, "Error processing your request")

\* res.json({content: getFallbackResponse(message), usingFallback: true});
\* what getFallbackResponse throws reaches the outer catch
Simulated(message, randomIndex) ==
    LET content == getFallbackResponse(message, randomIndex)
    IN  IF content = TypeError THEN ErrorProcessing
        ELSE Response(200, content, TRUE, "")

\* the handler of POST /api/chat: the response, and the key given to the
\* Configuration of the OpenAI call (NoKey when no call is made)
postChat(body, envKey, upstream, randomIndex) ==
    LET message == body.message
        clientApiKey == body.apiKey
    IN  IF Falsy(message)
        THEN [res |-> Response(400, "", FALSE, "Message is required"),
              apiKey |-> NoKey]
        ELSE LET apiKeyToUse == IF clientApiKey # NoKey THEN clientApiKey
                                ELSE envKey
             IN  IF apiKeyToUse # NoKey
                 THEN [res |-> IF upstream = "resolves"
                               THEN Response(200, "completion", FALSE, "")
                               ELSE Simulated(message, randomIndex),
                       apiKey |-> apiKeyToUse]
                 ELSE [res |-> Simulated(message, randomIndex),
                       apiKey |-> NoKey]

Upstreams(message) ==
    IF message.type = "string" THEN {"resolves", "rejects"} ELSE {"rejects"}

\* a client posts body to /api/chat
PostChat(body, upstream, randomIndex) ==
    /\ LET made == postChat(body, openaiApiKey, upstream, randomIndex)
       IN  run' = [req |-> body,
                   upstream |-> IF made.apiKey = NoKey THEN "none" ELSE upstream]
                       @@ made
    /\ calls' = <<"POST /api/chat">>
    /\ UNCHANGED <<timerVars, viewTimer, lifecycle, mountTimer, engineVars, view,
                   pendingFx, loopCleanup, loopVars, ctxAvailable, audioVars,
                   offPage, sync, returned>>

ChatInit ==
    /\ BreakInit /\ Idle /\ ctxAvailable
    /\ NoAudioCalls
    /\ loading = NoLoad
    /\ SettingsAtRest
    /\ QueueAtRest
    /\ FarAtRest
    /\ openaiApiKey \in ServerKeys

ChatNext ==
    \E message \in Messages, apiKey \in ClientKeys :
        \E upstream \in Upstreams(message), randomIndex \in RandomIndexes :
            PostChat([message |-> message, apiKey |-> apiKey], upstream,
                     randomIndex)

ChatSpec == ChatInit /\ [][ChatNext]_vars

(***************************************************************************)
(* RenderSpec: the collectible renderer.  drawCollectibles is a function   *)
(* of the coin array and the camera offset; what it puts on the canvas is  *)
(* kept as the list of the coins drawn, in drawing order, each with the    *)
(* array index, the image and the screen position.  The level has coins    *)
(* around both edges of the canvas; the camera scrolls in steps of 10      *)
(* pixels and coins get collected between frames.                          *)
(***************************************************************************)
MaxScroll == 6

canvasWidth == 700

imageUrls == <<"d5931b60", "d693ce1c", "fc039335", "edb454cb">>
\* every url is pushed as one image, in order
coinImages == imageUrls

renderCoins ==
    <<[x |-> 0, y |-> 300, width |-> 30, height |-> 30, collected |-> FALSE],
      [x |-> 40, y |-> 300, width |-> 30, height |-> 30, collected |-> FALSE],
      [x |-> 700, y |-> 300, width |-> 30, height |-> 30, collected |-> FALSE],
      [x |-> 750, y |-> 300, width |-> 30, height |-> 30, collected |-> FALSE],
      [x |-> 650, y |-> 300, width |-> 30, height |-> 30, collected |-> FALSE]>>

renderGameState(cameraOffsetX) ==
    [gameOver |-> FALSE, score |-> 0, cameraOffsetX |-> cameraOffsetX]

\* a frame that numbers the image variants by drawing order
RECURSIVE renumberedFrom(_, _, _, _)
renumberedFrom(cs, i, n, cameraOffsetX) ==
    IF i >= Len(cs) THEN <<>>
    ELSE LET coin == cs[i + 1]
             adjustedX == coin.x - cameraOffsetX
         IN  IF ~coin.collected /\ adjustedX < 700 /\ adjustedX + coin.width > -20
             THEN <<[index |-> i,
                     image |-> coinImages[(n % Len(coinImages)) + 1],
                     x |-> adjustedX]>>
                  \o renumberedFrom(cs, i + 1, n + 1, cameraOffsetX)
             ELSE renumberedFrom(cs, i + 1, n, cameraOffsetX)

drawRenumbered(cs, cameraOffsetX) == renumberedFrom(cs, 0, 0, cameraOffsetX)

\* the forEach callback for the coin at array index i (from 0).  The i++
\* that ends the callback changes the callback's own parameter after its
\* last use; forEach passes the array index to every call.
drawCoin(coin, i, cameraOffsetX) ==
    IF ~coin.collected
    THEN LET adjustedX == coin.x - cameraOffsetX
         IN  IF adjustedX < 700 /\ adjustedX + coin.width > -20
             THEN LET imageIndex == i % Len(coinImages)
                  IN  <<[index |-> i,
                         image |-> coinImages[imageIndex + 1],
                         x |-> adjustedX]>>
             ELSE <<>>
    ELSE <<>>

RECURSIVE forEachCoin(_, _, _)
forEachCoin(cs, i, cameraOffsetX) ==
    IF i >= Len(cs) THEN <<>>
    ELSE drawCoin(cs[i + 1], i, cameraOffsetX)
         \o forEachCoin(cs, i + 1, cameraOffsetX)

drawCollectibles(cs, cameraOffsetX) == forEachCoin(cs, 0, cameraOffsetX)

RenderRest ==
    UNCHANGED <<timerVars, viewTimer, lifecycle, mountTimer, gameStarted,
                character, view, pendingFx, loopCleanup, loopVars,
                ctxAvailable, audioVars, offPage, sync, returned>>

\* renderGame draws the collectibles of the current coins and camera
DrawFrame ==
    /\ run' = drawCollectibles(coins, gameState.cameraOffsetX)
    /\ calls' = <<"renderGame">>
    /\ UNCHANGED <<coins, gameState>>
    /\ RenderRest

\* a tick collects the coin at position k of the array
CollectCoin(k) ==
    /\ ~coins[k].collected
    /\ coins' = [coins EXCEPT ![k].collected = TRUE]
    /\ run' = NoRun
    /\ calls' = <<"updateGame">>
    /\ UNCHANGED gameState
    /\ RenderRest

\* a tick moves the camera
Scroll(cameraOffsetX) ==
    /\ cameraOffsetX # gameState.cameraOffsetX
    /\ gameState' = renderGameState(cameraOffsetX)
    /\ run' = NoRun
    /\ calls' = <<"updateGame">>
    /\ UNCHANGED coins
    /\ RenderRest

CameraOffsets == {10 * k : k \in 0..MaxScroll}

RenderInit ==
    /\ BreakInit
    /\ intervalRef = 0 /\ intervals = {} /\ timeouts = {}
    /\ lifecycle = "mounted" /\ mountTimer = BreakState
    /\ gameStarted = TRUE
    /\ gameState = renderGameState(0)
    /\ character = initialCharacter
    /\ coins = renderCoins
    /\ view = [InitialView EXCEPT !.gameStarted = TRUE]
    /\ pendingFx = {} /\ loopCleanup = FALSE
    /\ gameLoopRef = 0 /\ rafQueue = {}
    /\ ctxAvailable = TRUE
    /\ audioRef = FALSE /\ audioPlaying = FALSE
    /\ sync = FALSE /\ returned = 0
    /\ calls = <<>> /\ run = NoRun
    /\ OffPageIdle

RenderNext ==
    \/ DrawFrame
    \/ \E k \in 1..Len(coins) : CollectCoin(k)
    \/ \E cameraOffsetX \in CameraOffsets : Scroll(cameraOffsetX)

RenderSpec == RenderInit /\ [][RenderNext]_vars

(***************************************************************************)
(* Properties.  After a display refresh, run is the elapsed time the       *)
(* invocation of runGameLoop computed and calls are the calls it made; the *)
(* callback it requested is in rafQueue, its kept lastTimestamp on the     *)
(* clock whose latest refresh is at epoch.                                 *)
(***************************************************************************)
\* the refresh invoked one callback, whose closure read the game as not over
Invoked(cb) == run # NoRun /\ rafQueue = {cb} /\ ~cb.gameOver

\* C1: an invocation of runGameLoop whose elapsed time does not exceed the
\* frame interval makes no simulation tick and keeps lastTimestamp, so the
\* elapsed time accumulates; an invocation whose elapsed time exceeds it
\* makes exactly one tick and keeps timestamp - (elapsed mod frameInterval).
C1_ThrottleCarriesRemainder ==
    \A cb \in rafQueue :
        Invoked(cb) =>
            IF run > frameInterval
            THEN /\ Count(calls, "updateGame") = 1
                 /\ cb.last = epoch - (run % frameInterval)
            ELSE /\ Count(calls, "updateGame") = 0
                 /\ cb.last = epoch - run

\* an elapsed time that accumulated over more than one refresh exceeded the
\* interval: one tick, and the remainder of one time unit is kept
C1_Witness ==
    \E cb \in rafQueue :
        /\ Invoked(cb)
        /\ run = 2 * frameInterval + 1
        /\ Count(calls, "updateGame") = 1
        /\ cb.last = epoch - 1

\* C2, as stated: every invocation of the loop callback draws exactly one
\* frame, whether or not it made a simulation tick.
C2_RendersEveryInvocation ==
    (run # NoRun /\ Cardinality(rafQueue) = 1) => Count(calls, "renderGame") = 1

\* C2, as the code has it: an invocation draws exactly one frame when its
\* elapsed time exceeds the frame interval, whether or not it made a
\* simulation tick, and draws nothing when it does not.
C2_RendersWhenDue ==
    (run # NoRun /\ Cardinality(rafQueue) = 1) =>
        Count(calls, "renderGame") = IF run > frameInterval THEN 1 ELSE 0

\* a frame drawn by an invocation that made no tick
C2_Witness ==
    /\ run > frameInterval /\ Cardinality(rafQueue) = 1
    /\ Count(calls, "renderGame") = 1
    /\ Count(calls, "updateGame") = 0

\* C3: while gameState.gameOver is true, and the page has been rendered with
\* it, no step invokes updateGame.
C3_NoTickWhileGameOver ==
    [][(gameState.gameOver /\ view.gameOver) => Count(calls', "updateGame") = 0]_vars

C5_ReturnStopsLoopAndAudio ==
    /\ \A i \in DOMAIN calls :
          calls[i] = "onReturn" =>
              /\ rafQueue = {}
              /\ gameLoopRef = 0
              /\ ~audioPlaying
              /\ \A j \in DOMAIN calls :
                    calls[j] \in {"audio.pause", "cancelAnimationFrame"} => j < i
    /\ returned > 0 => Count(calls, "updateGame") = 0

\* the return was requested while the audio played and a callback was
\* scheduled
C5_Witness ==
    /\ calls = <<"audio.pause", "cancelAnimationFrame", "onReturn">>
    /\ returned = 1

C7_PausesRunningTimerAtTeardown ==
    [][(pendingFx = {"unmount"} /\ pendingFx' = {})
          => /\ (Count(calls', "onPause") = 1) <=> timerState.isRunning
             /\ ~timerState'.isRunning]_vars

\* C8: between the mount of the game and its unmount, onReturn is called at
\* most once.
C8_ReturnsOnce == returned <= 1

\* the user has clicked "Return to Timer"
C8_Witness == returned = 1 /\ Count(calls, "onReturn") = 1

\* C9: a step that calls startTimer (directly, from the auto-start timeout
\* or as the game's onStart) while the timer is running leaves timerState,
\* the stored state and the countdown interval unchanged.
C9_StartWhileRunningIsNoOp ==
    [][(timerState.isRunning
        /\ (Count(calls', "startTimer") > 0 \/ Count(calls', "onStart") > 0))
          => /\ timerState' = timerState
             /\ stored' = stored
             /\ intervals' = intervals
             /\ intervalRef' = intervalRef]_vars

\* C10: whenever the game is started, the context is available and React
\* has nothing left to render or to run, a loop callback is scheduled.
C10_LoopRunsOnceContextAvailable ==
    (/\ lifecycle = "mounted" /\ view.gameStarted /\ ctxAvailable
     /\ pendingFx = {} /\ ~Dirty /\ ~sync /\ returned = 0)
        => rafQueue # {}


\* C11: one invocation of runGameLoop makes at most one simulation tick,
\* however many frame intervals have elapsed, and after a tick the elapsed
\* time that is carried over is less than one frame interval.
C11_OneTickPerInvocation ==
    \A cb \in rafQueue :
        (run # NoRun /\ rafQueue = {cb}) =>
            /\ Count(calls, "updateGame") <= 1
            /\ run > frameInterval =>
                  (epoch - cb.last >= 0 /\ epoch - cb.last < frameInterval)

\* two whole frame intervals and more had elapsed, and one tick was made
C11_Witness ==
    \E cb \in rafQueue :
        /\ Invoked(cb)
        /\ run > 2 * frameInterval
        /\ Count(calls, "updateGame") = 1


\* the coins a step collects
Collected == {i \in DOMAIN coins : ~coins[i].collected /\ coins'[i].collected}

\* C12: a step that makes a simulation tick does not lower the score, adds
\* to it exactly the per-coin value for every coin that goes from not
\* collected to collected, and leaves every collected coin collected.
C12_ScoreCountsEachCoinOnce ==
    [][Count(calls', "updateGame") > 0
          => /\ gameState'.score >= gameState.score
             /\ gameState'.score = gameState.score + coinValue * Cardinality(Collected)
             /\ \A i \in DOMAIN coins : coins[i].collected => coins'[i].collected]_vars

\* a tick was made with the character still on a coin it collected on an
\* earlier tick; the coin has been counted once
C12_Witness ==
    /\ Count(calls, "updateGame") = 1
    /\ character.x = initialCoins[1].x
    /\ Overlaps(character, coins[1])
    /\ coins[1].collected
    /\ gameState.score = coinValue


C16_ClampsAtSolidObstacle ==
    [][calls' = <<"updateGame">>
          => \A i \in DOMAIN levelObstacles :
                (/\ levelObstacles[i].solid
                 /\ run'.vx = walkSpeed
                 /\ character.x + character.width <= levelObstacles[i].x
                 /\ run'.x + run'.width > levelObstacles[i].x
                 /\ OverlapsY(character, levelObstacles[i])
                 /\ OverlapsY(character', levelObstacles[i]))
                    => /\ character'.x = levelObstacles[i].x - character'.width
                       /\ character'.vx = 0]_vars

\* the character walked on the ground into the obstacle and was put back
C16_Witness ==
    /\ calls = <<"updateGame">>
    /\ run.vx = walkSpeed
    /\ run.x + run.width > levelObstacles[1].x
    /\ character.x = levelObstacles[1].x - character.width
    /\ character.vx = 0
    /\ character.onGround /\ Bottom(character) = levelPlatforms[1].y



(***************************************************************************)
(* Properties of RenderSpec.  After DrawFrame, run is the list of the      *)
(* coins the frame drew; coins and the camera are those the frame read.    *)
(***************************************************************************)
Framed == calls = <<"renderGame">>

Drawn(i) == \E k \in 1..Len(run) : run[k].index = i

\* C17: in every frame, the image drawn for the coin at array index i is
\* image number i mod 4 of the four coin images, whatever the camera
\* offset and whichever other coins are collected or culled.
C17_VariantIsIndexModCount ==
    Framed =>
        /\ Len(coinImages) = 4
        /\ \A k \in 1..Len(run) :
              run[k].image = coinImages[(run[k].index % 4) + 1]

\* a frame that draws the coin at index 4 with image 0 while an earlier
\* coin is collected and another is culled
C17_Witness ==
    /\ Framed
    /\ \E k \in 1..Len(run) :
          run[k].index = 4 /\ run[k].image = coinImages[1]
    /\ \E i \in 0..3 : coins[i + 1].collected
    /\ \E i \in 0..3 : ~coins[i + 1].collected /\ ~Drawn(i)


\* the screen extent of a coin meets the canvas widened by margin on each side
InWidenedViewport(coin, cameraOffsetX, margin) ==
    /\ coin.x - cameraOffsetX < canvasWidth + margin
    /\ coin.x - cameraOffsetX + coin.width > -margin

\* C18: there is a margin such that a frame draws a coin if and only if the
\* coin is not collected and its screen extent [x - cameraOffsetX,
\* x - cameraOffsetX + width] meets the 700 pixel wide canvas widened by
\* that margin on the left and on the right.
C18_CullsBySymmetricMargin ==
    Framed =>
        \E margin \in 0..canvasWidth :
            \A i \in 0..(Len(coins) - 1) :
                Drawn(i) <=>
                    /\ ~coins[i + 1].collected
                    /\ InWidenedViewport(coins[i + 1], gameState.cameraOffsetX,
                                         margin)


(***************************************************************************)
(* Properties of AudioSpec.                                                *)
(***************************************************************************)
Played == {t \in Tabs : tabs[t].plays > 0}

Called(t) == tabs[t].pc # "idle"

Decided(t) == tabs[t].pc \in {"timeout", "done"}

\* C19: the sound is played once across the tabs: whatever the order of
\* the tabs' flag writes and read-backs, at most one tab plays it, and once
\* every tab that called has gone through its read-back one tab has played.
C19_PlaysOnceAcrossTabs ==
    /\ Cardinality(Played) <= 1
    /\ ((\E t \in Tabs : Called(t)) /\ (\A t \in Tabs : Called(t) => Decided(t)))
           => Played # {}


(***************************************************************************)
(* Properties of ChatSpec.  After PostChat, run is the exchange: the       *)
(* request, what the OpenAI call did, the response and the key used.       *)
(***************************************************************************)
Posted == calls = <<"POST /api/chat">>

HasMessage(req) ==
    req.message.type # "undefined" /\ req.message # Str(<<>>)

SimulatedResponses ==
    {fallbackResponses[i] : i \in 1..Len(fallbackResponses)}
        \cup {"Hello! I'm your productivity assistant. How can I help you today?",
              "I'm functioning well and ready to help you with your productivity needs!",
              "You're welcome! Feel free to ask if you need more assistance."}

\* C20: a request without a message is answered 400; a request with a
\* message is answered 200 with a content that is not empty, which is a
\* simulated response marked usingFallback when neither the client nor the
\* environment gives a key or the OpenAI call fails; a key in the request
\* is the one used for the OpenAI call, whatever the environment holds.
C20_ChatWorksWithoutKey ==
    Posted =>
        /\ ~HasMessage(run.req) => run.res.status = 400
        /\ HasMessage(run.req) =>
              /\ run.res.status = 200
              /\ run.res.content # ""
              /\ (run.apiKey = NoKey \/ run.upstream = "rejects") =>
                    /\ run.res.usingFallback
                    /\ run.res.content \in SimulatedResponses
              /\ run.req.apiKey # NoKey => run.apiKey = run.req.apiKey


(***************************************************************************)
(* Properties of the auto-start.                                           *)
(***************************************************************************)
\* the step runs the 100 ms timeout of selectBreakActivity
AutoStarted == timeouts' # timeouts /\ timeouts' \subseteq timeouts

\* C21: when the delayed auto-start of a selected activity runs, the timer
\* is running afterwards and breakActivity is still the selected activity:
\* neither the timeout's startTimer nor the game's onStart clears it.
C21_AutoStartKeepsActivity ==
    [][(AutoStarted /\ timerState.breakActivity # "null")
          => /\ timerState'.isRunning
             /\ timerState'.breakActivity = timerState.breakActivity]_vars


(***************************************************************************)
(* Properties of HookSpec.  The one step that changes timerState and makes *)
(* no call is the firing of the countdown interval.                        *)
(***************************************************************************)
Ticked == calls' = <<>> /\ timerState' # timerState

OtherMode(mode) == IF mode = "focus" THEN "break" ELSE "focus"

\* C22: a tick of the countdown with timeRemaining <= 1 completes the
\* timer: no interval is left, the mode flips, timeRemaining is the
\* duration of the new mode, isRunning is false, breakActivity null and
\* completed true; any other tick takes 1 from timeRemaining, sets completed
\* to false and changes nothing else.
C22_TickCountsDownOrCompletes ==
    [][Ticked =>
        IF timerState.timeRemaining <= 1
        THEN /\ intervals' = {} /\ intervalRef' = 0
             /\ timerState' = [mode |-> OtherMode(timerState.mode),
                               timeRemaining |-> Duration(OtherMode(timerState.mode)),
                               isRunning |-> FALSE, breakActivity |-> "null",
                               completed |-> TRUE]
        ELSE /\ timerState' = [timerState EXCEPT !.timeRemaining = @ - 1,
                                                 !.completed = FALSE]
             /\ UNCHANGED <<intervals, intervalRef>>]_vars

\* a tick has just completed a focus session that was counted down
C22_Witness ==
    /\ calls = <<>> /\ stored = timerState /\ sinceUpdate = 0
    /\ timerState = BreakState
    /\ intervals = {} /\ intervalRef = 0
    /\ viewTimer.isRunning /\ viewTimer.timeRemaining = 1


\* C23: in every state of the hook, timeRemaining is not negative and
\* isRunning is true exactly when the countdown interval is active
\* (intervalRef is set), whatever the starts, pauses, resets, completions
\* and loads from storage before.
C23_RunningIffInterval ==
    /\ timerState.timeRemaining >= 0
    /\ timerState.isRunning <=> (intervalRef # 0 /\ intervalRef \in intervals)


\* a countdown that was paused part of the way: stopped, not completed,
\* and short of the duration a reset or a completion gives
Paused ==
    /\ ~timerState.isRunning /\ ~timerState.completed
    /\ intervalRef = 0 /\ intervals = {}
    /\ timerState.timeRemaining < Duration(timerState.mode)

\* C24: a paused timer keeps its timeRemaining and stays stopped through
\* every step that is not the user's start or reset, reloads from storage
\* on visibilitychange included.
C24_PausedStaysPaused ==
    [][(Paused /\ calls' \notin {<<"startTimer">>, <<"resetTimer">>})
          => /\ ~timerState'.isRunning
             /\ timerState'.timeRemaining = timerState.timeRemaining]_vars


\* the step is what follows the reads of a loadStoredTimerState that read a
\* running state
LoadedRunning ==
    /\ calls' = <<"loadStoredTimerState">>
    /\ loading.storedState.isRunning

\* the seconds left of the state that was read
LoadedRemaining ==
    Max(0, loading.storedState.timeRemaining - loading.elapsed)

\* C25: a load of a stored running state takes the elapsed seconds from
\* timeRemaining, not below 0; with seconds left the tab adopts the state
\* and has a running interval, with none left its timerState becomes the
\* completed state of the next mode, as after a completion in this tab.
C25_LoadAdoptsOrCompletes ==
    [][LoadedRunning =>
        IF LoadedRemaining > 0
        THEN /\ timerState' = [loading.storedState EXCEPT
                                  !.timeRemaining = LoadedRemaining]
             /\ intervalRef' # 0 /\ intervalRef' \in intervals'
        ELSE /\ timerState' = [mode |-> OtherMode(loading.storedState.mode),
                               timeRemaining |->
                                   Duration(OtherMode(loading.storedState.mode)),
                               isRunning |-> FALSE, breakActivity |-> "null",
                               completed |-> TRUE]
             /\ intervals' = {}]_vars


OneInterval ==
    /\ Cardinality(intervals) <= 1
    /\ intervals \subseteq {intervalRef}

\* C26: at most one countdown interval is active, and it is the one
\* intervalRef holds: whatever creates an interval has cleared the one
\* before, so a tick takes no more than 1 from timeRemaining.
C26_AtMostOneInterval ==
    /\ []OneInterval
    /\ [][Ticked => timerState'.timeRemaining >= timerState.timeRemaining - 1]_vars

\* startTimer has replaced an interval that was active: handle 2 is only
\* given while handle 1 is in use
C26_Witness ==
    /\ calls = <<"startTimer">>
    /\ intervalRef = 2 /\ intervals = {2}


(***************************************************************************)
(* Properties of SettingsSpec                                              *)
(***************************************************************************)
\* the step completes a session of the given mode
Completes(mode) ==
    /\ calls' = <<>>
    /\ timerState.mode = mode /\ timerState'.mode = OtherMode(mode)
    /\ timerState'.completed

\* C27: the durations are in one unit: with the duration that the background
\* script wrote on install in settingsRef, the countdown after a completed
\* break is the 25 minutes, 1500 seconds, and after a completed focus session
\* the 5 minutes, 300 seconds.
C27_InstalledDurationsInSeconds ==
    [][/\ (Completes("break")
             /\ settingsRef.focusDuration = InstalledSettings.focusDuration)
           => timerState'.timeRemaining = 1500
       /\ (Completes("focus")
             /\ settingsRef.breakDuration = InstalledSettings.breakDuration)
           => timerState'.timeRemaining = 300]_vars


(***************************************************************************)
(* Properties of the animation-frame loop                                  *)
(***************************************************************************)
\* C28: at most one chain of animation-frame callbacks is active: a re-run
\* of the loop effect cancels the callback of the previous run before it
\* requests one, so that no refresh invokes updateGame from two chains.
C28_OneLoopChain ==
    /\ Cardinality(rafQueue) <= 1
    /\ Count(calls, "updateGame") <= 1


\* the loop effect ran again while a callback was scheduled: it cancelled
\* that callback and requested one
C28_Witness ==
    /\ calls = <<"cancelAnimationFrame", "requestAnimationFrame">>
    /\ Cardinality(rafQueue) = 1

(***************************************************************************)
(* Properties of the game's mount                                          *)
(***************************************************************************)
\* the step runs the effects of the game's mount
Mounts == pendingFx = {"mount"} /\ pendingFx' = {}

\* C29: on mount the game sets gameStarted, resets the game, and calls
\* onStart exactly when the timer is not running; when it is running
\* onStart is not called and the timer is left as it is.
C29_MountStartsIdleTimer ==
    [][Mounts =>
        /\ gameStarted'
        /\ Count(calls', "resetGame") = 1
        /\ gameState' = initialGameState
        /\ (Count(calls', "onStart") = 1) <=> ~timerState.isRunning
        /\ Count(calls', "onStart") <= 1
        /\ timerState.isRunning => UNCHANGED timerVars]_vars


\* the game has mounted over a running timer: onStart was not called
C29_Witness ==
    /\ calls = <<"resetGame">>
    /\ lifecycle = "mounted" /\ gameStarted /\ ~view.gameStarted
    /\ timerState.isRunning

\* the game has mounted over an idle timer and called onStart
C29_WitnessIdle ==
    /\ calls = <<"resetGame", "onStart">>
    /\ lifecycle = "mounted" /\ gameStarted /\ ~view.gameStarted
    /\ timerState.isRunning /\ ~mountTimer.isRunning

(***************************************************************************)
(* Properties of QueueSpec                                                 *)
(***************************************************************************)
\* the values the writes that succeeded so far leave under a key of an area,
\* taken in the order of the calls
RECURSIVE LastWritten(_, _, _)
LastWritten(q, area, key) ==
    IF q = <<>> THEN NoValue
    ELSE LET op == q[Len(q)]
         IN  IF op.at = "done" /\ ~op.lastError /\ op.area = area /\ op.key = key
             THEN op.value
             ELSE LastWritten(SubSeq(q, 1, Len(q) - 1), area, key)

\* C30: the writes of saveToStorage and saveToLocalStorage are applied one
\* at a time and in the order of the calls; a write that fails with
\* chrome.runtime.lastError rejects its own promise and no other, and the
\* writes queued behind it still execute.
C30_WritesInCallOrder ==
    LET q == storageQueue
        N == Len(storageQueue)
    IN  \* one at a time
        /\ Cardinality({i \in 1..N : q[i].at = "setting"}) <= 1
        \* in the order of the calls
        /\ \A i, j \in 1..N : (i < j /\ q[j].at # "queued") => q[i].at = "done"
        /\ \A area \in {"sync", "local"}, key \in StorageKeys :
               chromeStorage[area][key] = LastWritten(q, area, key)
        \* a promise is rejected exactly when its own write failed
        /\ \A i \in 1..N :
               /\ q[i].promise = "rejected" <=> (q[i].at = "done" /\ q[i].lastError)
               /\ q[i].promise = "resolved" <=> (q[i].at = "done" /\ ~q[i].lastError)
        \* the write behind a write that is done can start, failed or not
        /\ \A i \in 1..N :
               (q[i].at = "queued" /\ \A j \in 1..(i - 1) : q[j].at = "done")
                   => ENABLED StartWrite(i)

\* a write has failed and the write queued behind it has been applied
C30_Witness ==
    \E i \in 1..Len(storageQueue), j \in 1..Len(storageQueue) :
        /\ i < j
        /\ storageQueue[i].lastError /\ storageQueue[i].promise = "rejected"
        /\ storageQueue[j].at = "done" /\ storageQueue[j].promise = "resolved"
        /\ chromeStorage[storageQueue[j].area][storageQueue[j].key]
               = storageQueue[j].value


(***************************************************************************)
(* Properties of the broadcast                                             *)
(***************************************************************************)
\* every queued write is done and no timeout of debouncedBroadcast is
\* pending: nothing more is sent unless there is another save
Settled ==
    /\ \A i \in 1..Len(storageQueue) : storageQueue[i].at = "done"
    /\ debounceTimeout = NoTimeout

\* C31: the latest value saved with success under a key by
\* saveToLocalStorage is broadcast as a stateChange, also when saves of
\* other keys fall into the debounce window: once the writes are done and
\* no broadcast is pending, each key's last message carries its latest
\* saved value.
C31_LatestValueBroadcast ==
    Settled =>
        \A key \in StorageKeys :
            LastWritten(storageQueue, "local", key) # NoValue
                => broadcast[key] = LastWritten(storageQueue, "local", key)

(***************************************************************************)
(* Properties of ListenSpec                                                *)
(***************************************************************************)
\* the listeners registered for a callback
RegisteredFor(cb) == {w \in onMessage : w.callback = cb}

\* every unsubscribe function returned for the callback has been called
AllUnsubscribed(cb) ==
    \A u \in unsubscribes : u.wrapped.callback = cb => u.called

\* C32: whatever the sequence of listenForStateChanges calls and of calls of
\* the functions they returned, a callback is registered with onMessage at
\* most once at a time, so that no message is delivered to it twice, and
\* when all functions returned for it have been called it is registered no
\* more.
C32_RegisteredAtMostOnce ==
    \A cb \in Callbacks :
        /\ Cardinality(RegisteredFor(cb)) <= 1
        /\ Count(calls, cb) <= 1
        /\ AllUnsubscribed(cb) => RegisteredFor(cb) = {}


(***************************************************************************)
(* Properties of RelaySpec.  After Relay, run is the exchange: the         *)
(* message, its sender, the tabs it was forwarded to, those whose callback *)
(* was called and whether it was written to storage.                       *)
(***************************************************************************)
Relayed == calls = <<"relay">>

\* C33: a tab does not process its own state change: the callback of
\* listenForStateChanges is not called for a stateChange whose tabId is the
\* tab's own globalThis.tabId, and the background forwards a stateChange to
\* every tab but the one that sent it.
C33_NoOwnStateChange ==
    Relayed =>
        /\ \A tab \in run.invoked : run.message.tabId # tabId(tab)
        /\ run.sender \notin run.forwarded
        /\ run.forwarded # {} => run.forwarded = Tabs \ {run.sender}

\* a stateChange of tab 1 that the popup sent was forwarded to every tab,
\* tab 1 among them, and the callback of tab 1 was not called
C33_Witness ==
    /\ Relayed
    /\ run.message.tabId = tabId(1) /\ run.sender = NoTab
    /\ run.forwarded = Tabs
    /\ run.invoked = Tabs \ {1}


\* the ids of the messages relayed within the last CACHE_EXPIRY_MS
RecentlyRelayed == {r.id : r \in relayedAgo}

\* C34: the background relays a stateChange at most once per message
\* identity (action, key, tabId, timestamp) within the cache window of 2
\* seconds: a duplicate that arrives within the window is not forwarded to
\* any tab and not written to storage.
C34_RelayedOncePerWindow ==
    [][(calls' = <<"relay">> /\ messageId(run'.message) \in RecentlyRelayed)
          => (run'.forwarded = {} /\ ~run'.stored)]_vars

\* a duplicate arrived a second after the message was relayed and was dropped
C34_Witness ==
    /\ Relayed
    /\ run.message.action = "stateChange"
    /\ run.forwarded = {} /\ ~run.stored
    /\ [id |-> messageId(run.message), age |-> 1] \in relayedAgo

(***************************************************************************)
(* Properties of OverlapSpec                                               *)
(***************************************************************************)
\* C35: within one tab the sound of one audioId is not played more than
\* once in 3 seconds, also when two calls overlap, the second made while
\* the first awaits the write of its flag or the read-back: of the calls
\* made within AUDIO_THROTTLE_MS of each other at most one plays.
C35_PlaysOncePerWindow ==
    \A c, d \in Calls :
        (audioCalls[c].played /\ audioCalls[d].played
            /\ audioCalls[d].now - audioCalls[c].now < AUDIO_THROTTLE_MS
            /\ audioCalls[c].now <= audioCalls[d].now)
        => c = d


(***************************************************************************)
(* Properties of KeySpec                                                   *)
(***************************************************************************)
\* fetchApiKeyFromFirestore has returned after reading Firestore
FetchReturned == ai.pc \notin {"idle", "attempt"} /\ ai.outcomes # <<>>

\* C36: when the read of the key from Firestore fails with an error,
\* fetchApiKeyFromFirestore retries, up to MAX_RETRIES times, after delays
\* of 1 s, 2 s and 4 s: it returns only after a read that did not fail or
\* after the fourth failed read (then with null), and never reads more
\* than MAX_RETRIES + 1 times.
C36_RetriesWithBackoff ==
    /\ Len(ai.outcomes) <= MAX_RETRIES + 1
    /\ Len(ai.delays) <= Len(ai.outcomes)
    /\ \A i \in 1..Len(ai.delays) :
           /\ ai.outcomes[i] = "error"
           /\ ai.delays[i] = (2 ^ (i - 1)) * 1000
    /\ FetchReturned =>
           /\ Len(ai.delays) = Len(ai.outcomes) - 1
           /\ ai.outcomes[Len(ai.outcomes)] = "error" =>
                  /\ Len(ai.outcomes) = MAX_RETRIES + 1
                  /\ ai.op = "fetch" => ai.result = NoKey


\* C37: getAIResponse asks with the Firebase key first, else with the
\* user's own key, else the server API, and answers with the canned
\* fallback when the request fails; when the request made with the
\* Firebase key fails and the user has stored a key of their own, the
\* retry is made with the user's key, not with the Firebase key again; and
\* the call resolves with a response string, never rejecting.
C37_KeyPriority ==
    (ai.op = "getAIResponse" /\ ai.requests # <<>>) =>
        /\ ai.requests[1] \in {FirebaseKey, UserKey, "/api/chat"}
        /\ ai.requests[1] = UserKey => localKey = UserKey
        /\ ai.requests[1] = "/api/chat" => localKey = NoKey
        /\ (ai.failed = <<FirebaseKey>> /\ localKey # NoKey) =>
               /\ Len(ai.requests) = 2
               /\ ai.requests[2] = localKey
        /\ ai.pc = "done" => ai.result \in {"content", "fallback"}

====
